---------------------------- MODULE Spec2Model ----------------------------
(***************************************************************************)
(* Model of the bubble overlay editor (the Editor component and its        *)
(* BubbleComponent children).                                              *)
(*                                                                         *)
(* State of the Editor component: the three useState hooks bubbles,        *)
(* selectedBubbleId and clipboard, the dragRef ref, and the clock read by  *)
(* Date.now().                                                             *)
(*                                                                         *)
(* Rendering.  A handler is a closure of the render that created it: it    *)
(* reads the `bubbles` constant of that render, not the hook's queue.      *)
(*   - bubbles      is the value of the hook once every queued update has  *)
(*                  been applied (functional updates `prev => ...` are     *)
(*                  applied to it, value updates replace it);              *)
(*   - seenBubbles  is the `bubbles` constant captured by the handlers of  *)
(*                  the last render (and shown in the DOM).                *)
(* Updates made in a discrete event (key-down, pointer-down, click,        *)
(* change) are rendered, and the effects re-registered, before the next    *)
(* event is handled, so such a handler ends with seenBubbles' = bubbles'.  *)
(* Updates made in a pointer-move are rendered by a later task (Render),   *)
(* so other events may be handled in between.  selectedBubbleId and        *)
(* clipboard are only ever set in discrete events, so the closures always  *)
(* hold their current values.                                              *)
(*                                                                         *)
(* Numbers: lineHeight is kept in thousandths (1200 stands for 1.2).       *)
(***************************************************************************)
EXTENDS Integers, Sequences, FiniteSets, TLC

VARIABLES
    bubbles,            \* useState<TextBubble[]>: value after the queued updates
    seenBubbles,        \* `bubbles` as captured by the closures of the last render
    selectedBubbleId,   \* useState<string | null>
    clipboard,          \* useState<TextBubble | null>: <<>> is null, <<b>> is b
    dragRef,            \* useRef: mode, start pointer, initial geometry
    now,                \* the clock Date.now() reads
    nOps,               \* clock ticks, creations, exports and dragging moves so far (bounds the run)
    lastEvent,          \* the event or call handled by the last step
    isSaving,           \* useState(false)
    saves,              \* the calls of handleSave that have not returned
    clones,             \* the copies of the canvas attached to document.body
    listeners,          \* the handlers registered on window, counted by event type
    mounted,            \* the Editor is mounted
    dragTarget,         \* history: the id of the bubble on which the last drag or resize started
    page,               \* generateMangaPage: where the call stands, its arguments and locals
    single,             \* generateSingleImage: retryCount, and the history of its attempts
    files,              \* useState<File[]>: the number of files
    isGenerating,       \* useState(false)
    generatedImages,    \* useState<string[]>: the number of images
    selectedImage,      \* useState<string | null>: <<>> is null, <<k>> is image k
    useProModel,        \* useState<boolean>(false)
    hasApiKey,          \* useState(false)
    variationCount,     \* useState<number>(3)
    error,              \* useState<string | null>
    pending,            \* the calls of generateMangaPage that have not settled
    aistudio,           \* window.aistudio is defined
    checkKey            \* the checkKey() of the mount effect: pending or done

vars == <<bubbles, seenBubbles, selectedBubbleId, clipboard, dragRef, now,
          nOps, lastEvent, isSaving, saves, clones, listeners, mounted,
          dragTarget, page, single, files, isGenerating, generatedImages,
          selectedImage, useProModel, hasApiKey, variationCount, error,
          pending, aistudio, checkKey>>

\* The state of the Editor component
editorVars == <<bubbles, seenBubbles, selectedBubbleId, clipboard, dragRef, now,
                nOps, lastEvent, isSaving, saves, clones, listeners, mounted,
                dragTarget>>

\* The state of the generation service
serviceVars == <<page, single>>

\* The state of the host application
appVars == <<files, isGenerating, generatedImages, selectedImage, useProModel,
             hasApiKey, variationCount, error, pending, aistudio, checkKey>>

----------------------------------------------------------------------------
(* Bounds of the exploration *)

\* A run makes at most MaxOps clock ticks, creations (add, paste), exports and
\* pointer-moves that move or resize an entity.
MaxOps == 3

\* The padding button is not pressed beyond a padding of MaxPadding.
MaxPadding == 20

\* Where the clock advances outside the budget of MaxOps, it does not pass MaxNow.
MaxNow == 1

\* generateMangaPage is called with at most MaxFiles files
MaxFiles == 1

\* and for at most MaxVariations variations
MaxVariations == 2

\* handleGenerate does not call generateMangaPage while MaxPending calls are
\* pending
MaxPending == 2

----------------------------------------------------------------------------
(* types.ts *)

SPEECH == "SPEECH"
THOUGHT == "THOUGHT"
SHOUT == "SHOUT"
BOX == "BOX"
PLAIN_TEXT == "PLAIN_TEXT"
WHISPER == "WHISPER"
FLASH == "FLASH"

BubbleType == {SPEECH, THOUGHT, SHOUT, BOX, PLAIN_TEXT, WHISPER, FLASH}

\* selectedBubbleId === null
null == "null"

\* The fields of a TextBubble; addBubble and paste store every one of them.
TextBubbleFields ==
    {"id", "x", "y", "text", "type", "width", "height", "fontSize", "fontWeight",
     "fontFamily", "letterSpacing", "lineHeight", "padding", "textColor",
     "textStrokeColor", "textStrokeWidth", "backgroundColor", "borderColor"}

----------------------------------------------------------------------------
(* Program constants *)

DefaultX == 50
DefaultY == 50
PasteOffset == 30
MinWidth == 60
MinHeight == 40

\* "ข้อความ..." (the Thai default text), transliterated
DefaultThaiText == "kho-khwam..."

----------------------------------------------------------------------------
(* addBubble: the default bundle of a type *)

\* Faulty variant: the WHISPER branch is missing.
DefaultsWithoutWhisper(type) ==
    LET base == [width |-> 150, height |-> 100, text |-> DefaultThaiText,
                 fontSize |-> 16, fontWeight |-> "normal",
                 fontFamily |-> "Sriracha", padding |-> 16, lineHeight |-> 1200,
                 letterSpacing |-> 0, textColor |-> "#000000",
                 backgroundColor |-> "#ffffff", borderColor |-> "#000000",
                 textStrokeWidth |-> 0, textStrokeColor |-> "#ffffff"]
    IN  IF type = BOX
          THEN [base EXCEPT !.width = 200, !.height = 80,
                            !.fontFamily = "Chakra Petch", !.padding = 8]
        ELSE IF type = PLAIN_TEXT
          THEN [base EXCEPT !.width = 180, !.height = 60, !.text = "Plain Text",
                            !.fontSize = 20, !.fontWeight = "bold", !.padding = 4,
                            !.backgroundColor = "transparent",
                            !.borderColor = "transparent",
                            !.textStrokeWidth = 3, !.textStrokeColor = "#ffffff"]
        ELSE IF type = SHOUT
          THEN [base EXCEPT !.fontWeight = "bold", !.padding = 24,
                            !.backgroundColor = "#fffacd"]
        ELSE base

Defaults(type) ==
    LET base == [width |-> 150, height |-> 100, text |-> DefaultThaiText,
                 fontSize |-> 16, fontWeight |-> "normal",
                 fontFamily |-> "Sriracha", padding |-> 16, lineHeight |-> 1200,
                 letterSpacing |-> 0, textColor |-> "#000000",
                 backgroundColor |-> "#ffffff", borderColor |-> "#000000",
                 textStrokeWidth |-> 0, textStrokeColor |-> "#ffffff"]
    IN  IF type = BOX
          THEN [base EXCEPT !.width = 200, !.height = 80,
                            !.fontFamily = "Chakra Petch", !.padding = 8]
        ELSE IF type = PLAIN_TEXT
          THEN [base EXCEPT !.width = 180, !.height = 60, !.text = "Plain Text",
                            !.fontSize = 20, !.fontWeight = "bold", !.padding = 4,
                            !.backgroundColor = "transparent",
                            !.borderColor = "transparent",
                            !.textStrokeWidth = 3, !.textStrokeColor = "#ffffff"]
        ELSE IF type = SHOUT
          THEN [base EXCEPT !.fontWeight = "bold", !.padding = 24,
                            !.backgroundColor = "#fffacd"]
        ELSE IF type = WHISPER
          THEN [base EXCEPT !.fontFamily = "Itim", !.textColor = "#555555",
                            !.borderColor = "#888888"]
        ELSE base

\* Date.now().toString()
DateNowString(clock) == ToString(clock)

\* const newBubble: TextBubble = { id: Date.now().toString(), x: 50, y: 50, ... }
NewBubble(type, clock) ==
    LET d == Defaults(type)
    IN  [id |-> DateNowString(clock), x |-> DefaultX, y |-> DefaultY,
         text |-> d.text, type |-> type, width |-> d.width, height |-> d.height,
         fontSize |-> d.fontSize, fontWeight |-> d.fontWeight,
         fontFamily |-> d.fontFamily, padding |-> d.padding,
         lineHeight |-> d.lineHeight, letterSpacing |-> d.letterSpacing,
         textColor |-> d.textColor, backgroundColor |-> d.backgroundColor,
         borderColor |-> d.borderColor, textStrokeWidth |-> d.textStrokeWidth,
         textStrokeColor |-> d.textStrokeColor]

----------------------------------------------------------------------------
(* Array helpers *)

\* bubbles.find(b => b.id === id): <<>> when undefined, else <<the first match>>
Find(bs, id) ==
    LET hits == {i \in 1..Len(bs) : bs[i].id = id}
    IN  IF hits = {} THEN <<>>
        ELSE <<bs[CHOOSE i \in hits : \A j \in hits : i <= j]>>

\* bs.filter(b => b.id !== id)
RECURSIVE FilterOut(_, _)
FilterOut(bs, id) ==
    IF bs = <<>> THEN <<>>
    ELSE IF Head(bs).id = id THEN FilterOut(Tail(bs), id)
    ELSE <<Head(bs)>> \o FilterOut(Tail(bs), id)

\* Faulty variant: { ...updates, ...b }, the stored fields win.
MergeUpdatesFirst(b, updates) == b

\* { ...b, ...updates }
Merge(b, updates) ==
    LET get(f) == IF f \in DOMAIN updates THEN updates[f] ELSE b[f]
    IN  [id |-> get("id"), x |-> get("x"), y |-> get("y"), text |-> get("text"),
         type |-> get("type"), width |-> get("width"), height |-> get("height"),
         fontSize |-> get("fontSize"), fontWeight |-> get("fontWeight"),
         fontFamily |-> get("fontFamily"), padding |-> get("padding"),
         lineHeight |-> get("lineHeight"), letterSpacing |-> get("letterSpacing"),
         textColor |-> get("textColor"), backgroundColor |-> get("backgroundColor"),
         borderColor |-> get("borderColor"),
         textStrokeWidth |-> get("textStrokeWidth"),
         textStrokeColor |-> get("textStrokeColor")]

IdsOf(bs) == {bs[i].id : i \in 1..Len(bs)}

----------------------------------------------------------------------------
(* The state updaters of updateBubble, deleteBubble and paste *)

\* Faulty variant: the updated bubble is rebuilt as a speech bubble.
updateBubbleRetypes(prev, id, updates) ==
    [i \in 1..Len(prev) |-> IF prev[i].id = id
                            THEN [Merge(prev[i], updates) EXCEPT !.type = SPEECH]
                            ELSE prev[i]]

\* prev => prev.map(b => b.id === id ? { ...b, ...updates } : b)
updateBubble(prev, id, updates) ==
    [i \in 1..Len(prev) |-> IF prev[i].id = id THEN Merge(prev[i], updates)
                            ELSE prev[i]]

\* prev => prev.filter(b => b.id !== id)
deleteBubbleScene(prev, id) == FilterOut(prev, id)

\* Faulty variant: setSelectedBubbleId(null) whatever is deleted.
deleteBubbleSelectionAlways(selected, id) == null

\* Faulty variant: the selection is never cleared.
deleteBubbleSelectionNever(selected, id) == selected

\* if (selectedBubbleId === id) setSelectedBubbleId(null)
deleteBubbleSelection(selected, id) == IF selected = id THEN null ELSE selected

\* Faulty variant: the pasted bubble is not offset.
PastedBubbleNoOffset(clip, newId) == [clip EXCEPT !.id = newId]

\* { ...clipboard, id: newId, x: clipboard.x + 30, y: clipboard.y + 30 }
PastedBubble(clip, newId) ==
    [clip EXCEPT !.id = newId, !.x = clip.x + PasteOffset, !.y = clip.y + PasteOffset]

----------------------------------------------------------------------------
(* Events *)

\* A key event: e.key, e.ctrlKey, e.metaKey and its target element.
Keys == {"Delete", "Backspace", "c", "V", "x"}

Targets ==
    {[tagName |-> "BODY", isContentEditable |-> FALSE],
     [tagName |-> "INPUT", isContentEditable |-> FALSE],
     [tagName |-> "TEXTAREA", isContentEditable |-> FALSE],
     [tagName |-> "DIV", isContentEditable |-> TRUE]}

\* No modifier, Ctrl, or Cmd
Modifiers ==
    {[ctrlKey |-> FALSE, metaKey |-> FALSE], [ctrlKey |-> TRUE, metaKey |-> FALSE],
     [ctrlKey |-> FALSE, metaKey |-> TRUE]}

KeyEvents ==
    {[key |-> k, ctrlKey |-> m.ctrlKey, metaKey |-> m.metaKey, target |-> t] :
        k \in Keys, m \in Modifiers, t \in Targets}

\* Pointer coordinates (clientX, clientY) of the pointer events.
DownPointers == {[x |-> 100, y |-> 100]}
MovePointers == {[x |-> 140, y |-> 90]}

\* Tag names of the elements inside a bubble whose mousedown reaches the
\* container: its body, a toolbar button, the <span> glyph nested inside the
\* bold button, a colour input.  (The delete and edit buttons and the textarea
\* stop the event.)
BodyTags == {"DIV"}
ToolbarTags == {"BUTTON", "SPAN", "INPUT"}

\* Pointer positions of a drag that shrinks, grows and passes intermediate points
DragMovePointers == {[x |-> 140, y |-> 90], [x |-> 120, y |-> 95], [x |-> 0, y |-> 0]}

\* String.prototype.toLowerCase on the keys above
ToLowerCase(key) ==
    CASE key = "C" -> "c"
      [] key = "V" -> "v"
      [] key = "Delete" -> "delete"
      [] key = "Backspace" -> "backspace"
      [] OTHER -> key

\* What the spec calls the event: which shortcut it is and whether a text-input
\* control is its target.  Recorded in lastEvent; the handlers below do not read it.
ShortcutOf(e) ==
    IF e.key \in {"Delete", "Backspace"} THEN "delete"
    ELSE IF (e.ctrlKey \/ e.metaKey) /\ e.key \in {"c", "C"} THEN "copy"
    ELSE IF (e.ctrlKey \/ e.metaKey) /\ e.key \in {"v", "V"} THEN "paste"
    ELSE "none"

TextInputControl(target) ==
    target.tagName \in {"INPUT", "TEXTAREA"} \/ target.isContentEditable

\* tagName, x and y are e.target.tagName, e.clientX and e.clientY of a pointer
\* event; step is the delta passed by a button of the style editor and before
\* the value of the bubble the button's handler read.
Event(kind, id, shortcut, textInput) ==
    [kind |-> kind, id |-> id, shortcut |-> shortcut, textInput |-> textInput,
     tagName |-> "none", x |-> 0, y |-> 0, step |-> 0, before |-> 0,
     alert |-> "none"]

Call(kind, id) == Event(kind, id, "none", FALSE)

PointerEvent(kind, id, tagName, p) ==
    [Call(kind, id) EXCEPT !.tagName = tagName, !.x = p.x, !.y = p.y]

StepEvent(kind, id, step, before) ==
    [Call(kind, id) EXCEPT !.step = step, !.before = before]

AlertEvent(kind, message) ==
    [Call(kind, null) EXCEPT !.alert = message]

----------------------------------------------------------------------------
(* handleKeyDown *)

\* Faulty variant: a TEXTAREA is not recognised.
isInputNoTextarea(target) ==
    target.tagName = "INPUT" \/ target.isContentEditable

\* const isInput = target.tagName === 'INPUT' || ... === 'TEXTAREA' || target.isContentEditable
isInput(target) ==
    target.tagName = "INPUT" \/ target.tagName = "TEXTAREA" \/ target.isContentEditable

\* (e.key === 'Delete' || e.key === 'Backspace') && selectedBubbleId && !isInput
keyDeletes(e, selected) ==
    (e.key = "Delete" \/ e.key = "Backspace") /\ selected # null /\ ~isInput(e.target)

\* (e.ctrlKey || e.metaKey) && e.key.toLowerCase() === 'c' && selectedBubbleId && !isInput
keyCopies(e, selected) ==
    (e.ctrlKey \/ e.metaKey) /\ ToLowerCase(e.key) = "c" /\ selected # null
        /\ ~isInput(e.target)

\* (e.ctrlKey || e.metaKey) && e.key.toLowerCase() === 'v' && clipboard && !isInput
keyPastes(e, clip) ==
    (e.ctrlKey \/ e.metaKey) /\ ToLowerCase(e.key) = "v" /\ clip # <<>>
        /\ ~isInput(e.target)

\* const bubbleToCopy = bubbles.find(...); if (bubbleToCopy) setClipboard(bubbleToCopy)
copiedClipboard(seen, selected, clip) ==
    LET bubbleToCopy == Find(seen, selected)
    IN  IF bubbleToCopy # <<>> THEN bubbleToCopy ELSE clip

\* Faulty variant: a paste consumes the clipboard.
clipboardAfterKeyConsumed(e, seen, selected, clip) ==
    IF keyPastes(e, clip) THEN <<>>
    ELSE IF keyCopies(e, selected) THEN copiedClipboard(seen, selected, clip)
    ELSE clip

\* Faulty variant: copy does not require a selection and stores what find returns.
clipboardAfterKeyUnguarded(e, seen, selected, clip) ==
    IF (e.ctrlKey \/ e.metaKey) /\ ToLowerCase(e.key) = "c" /\ ~isInput(e.target)
      THEN Find(seen, selected)
      ELSE clip

\* The clipboard after handleKeyDown(e): only the copy branch sets it.
clipboardAfterKey(e, seen, selected, clip) ==
    IF keyCopies(e, selected) THEN copiedClipboard(seen, selected, clip) ELSE clip

----------------------------------------------------------------------------
(* startDrag, startResize, handleGlobalMouseMove *)

IdleDrag ==
    [mode |-> "IDLE", startX |-> 0, startY |-> 0, initialX |-> 0, initialY |-> 0,
     initialWidth |-> 0, initialHeight |-> 0]

Capture(mode, p, bubble) ==
    [mode |-> mode, startX |-> p.x, startY |-> p.y,
     initialX |-> bubble.x, initialY |-> bubble.y,
     initialWidth |-> bubble.width, initialHeight |-> bubble.height]

\* startDrag(e, id): the new value of dragRef.current
startDrag(drag, seen, tagName, p, id) ==
    LET bubble == Find(seen, id)
    IN  IF bubble = <<>> THEN drag
        ELSE IF tagName = "BUTTON" \/ tagName = "TEXTAREA" \/ tagName = "INPUT"
          THEN drag
        ELSE Capture("MOVE", p, bubble[1])

\* Faulty variant: the event also reaches the container, whose handler starts a move.
startResizePropagates(drag, seen, p, id) ==
    LET bubble == Find(seen, id)
    IN  IF bubble = <<>> THEN drag ELSE Capture("MOVE", p, bubble[1])

\* startResize(e, id): the new value of dragRef.current
startResize(drag, seen, p, id) ==
    LET bubble == Find(seen, id)
    IN  IF bubble = <<>> THEN drag ELSE Capture("RESIZE", p, bubble[1])

Max(a, b) == IF a >= b THEN a ELSE b

\* Faulty variant: the minimum size is not enforced.
dragUpdatesUnclamped(drag, p) ==
    LET deltaX == p.x - drag.startX
        deltaY == p.y - drag.startY
    IN  IF drag.mode = "MOVE"
          THEN [x |-> drag.initialX + deltaX, y |-> drag.initialY + deltaY]
          ELSE [width |-> drag.initialWidth + deltaX,
                height |-> drag.initialHeight + deltaY]

\* Faulty variant: the position is the delta itself, the initial position is lost.
dragUpdatesDeltaOnly(drag, p) ==
    LET deltaX == p.x - drag.startX
        deltaY == p.y - drag.startY
    IN  IF drag.mode = "MOVE"
          THEN [x |-> deltaX, y |-> deltaY]
          ELSE [width |-> Max(MinWidth, drag.initialWidth + deltaX),
                height |-> Max(MinHeight, drag.initialHeight + deltaY)]

\* Faulty variant: the minimum is applied to the width and not to the height.
dragUpdatesWidthOnly(drag, p) ==
    LET deltaX == p.x - drag.startX
        deltaY == p.y - drag.startY
    IN  IF drag.mode = "MOVE"
          THEN [x |-> drag.initialX + deltaX, y |-> drag.initialY + deltaY]
          ELSE [width |-> Max(MinWidth, drag.initialWidth + deltaX),
                height |-> drag.initialHeight + deltaY]

\* Faulty variant: a resize keeps the centre of the entity where it was, so the
\* corner moves by half of what the size gains.
dragUpdatesAroundCentre(drag, p) ==
    LET deltaX == p.x - drag.startX
        deltaY == p.y - drag.startY
        w == Max(MinWidth, drag.initialWidth + deltaX)
        h == Max(MinHeight, drag.initialHeight + deltaY)
    IN  IF drag.mode = "MOVE"
          THEN [x |-> drag.initialX + deltaX, y |-> drag.initialY + deltaY]
          ELSE [x |-> drag.initialX - ((w - drag.initialWidth) \div 2),
                y |-> drag.initialY - ((h - drag.initialHeight) \div 2),
                width |-> w, height |-> h]

\* The partial handleGlobalMouseMove passes to updateBubble
dragUpdates(drag, p) ==
    LET deltaX == p.x - drag.startX
        deltaY == p.y - drag.startY
    IN  IF drag.mode = "MOVE"
          THEN [x |-> drag.initialX + deltaX, y |-> drag.initialY + deltaY]
          ELSE [width |-> Max(MinWidth, drag.initialWidth + deltaX),
                height |-> Max(MinHeight, drag.initialHeight + deltaY)]

\* Faulty variant: every entity follows the drag, selected or not.
dragMovedEveryEntity(prev, drag, selected, p) ==
    IF drag.mode = "IDLE" THEN prev
    ELSE [i \in 1..Len(prev) |-> Merge(prev[i], dragUpdates(drag, p))]

\* Faulty variant: the mode is not tested, a selected entity follows the pointer
\* of an idle session.
dragMovedWhileIdle(prev, drag, selected, p) ==
    IF selected = null THEN prev
    ELSE updateBubble(prev, selected,
                      [x |-> drag.initialX + (p.x - drag.startX),
                       y |-> drag.initialY + (p.y - drag.startY)])

\* handleGlobalMouseMove: if (mode === 'IDLE' || !selectedBubbleId) return;
\* else updateBubble(selectedBubbleId, {...})
dragMoved(prev, drag, selected, p) ==
    IF drag.mode = "IDLE" \/ selected = null THEN prev
    ELSE updateBubble(prev, selected, dragUpdates(drag, p))

\* Faulty variant: only a MOVE is ended by the pointer-up.
releasedOnlyFromMove(drag) ==
    IF drag.mode = "MOVE" THEN [drag EXCEPT !.mode = "IDLE"] ELSE drag

\* handleGlobalMouseUp: dragRef.current.mode = 'IDLE'
released(drag) == [drag EXCEPT !.mode = "IDLE"]

----------------------------------------------------------------------------
(* BubbleComponent: the style editor of the selected bubble *)

Min(a, b) == IF a <= b THEN a ELSE b

\* The steps of the buttons: font size -2/+2, padding -2/+2, line height
\* -0.1/+0.1, letter spacing -1/+1
FontSizeSteps == {-2, 2}
PaddingSteps == {-2, 2}
LineHeightSteps == {-100, 100}
LetterSpacingSteps == {-1, 1}

\* The rounding error of the floating-point sum lineHeight + delta, of which
\* one thousandth is an upper bound
FloatErrors == {-1, 0, 1}

\* Colours picked in the outline colour input
StrokeColors == {"#ff0000"}

\* Read-time defaults: bubble.fontSize || 16, bubble.padding !== undefined ?
\* bubble.padding : 16, bubble.lineHeight || 1.2, bubble.letterSpacing || 0,
\* bubble.textStrokeWidth || 0 (every stored bubble defines every field)
fontSize(bubble) == IF bubble.fontSize = 0 THEN 16 ELSE bubble.fontSize
padding(bubble) == bubble.padding
lineHeight(bubble) == IF bubble.lineHeight = 0 THEN 1200 ELSE bubble.lineHeight
letterSpacing(bubble) == IF bubble.letterSpacing = 0 THEN 0 ELSE bubble.letterSpacing
strokeWidth(bubble) == IF bubble.textStrokeWidth = 0 THEN 0 ELSE bubble.textStrokeWidth

\* Math.round(newHeight * 10) / 10
RoundToTenth(h) == ((h + 50) \div 100) * 100

\* handleFontSizeChange of the earlier BubbleComponent: Math.min(72, ...)
handleFontSizeChangeEarlier(bubble, delta) ==
    [fontSize |-> Max(8, Min(72, fontSize(bubble) + delta))]

\* handleFontSizeChange: the partial passed to onUpdate
handleFontSizeChange(bubble, delta) ==
    [fontSize |-> Max(8, Min(96, fontSize(bubble) + delta))]

\* Faulty variant: || 16 instead of !== undefined, a padding of 0 reads as 16.
handlePaddingChangeFalsy(bubble, delta) ==
    [padding |-> Max(0, (IF bubble.padding = 0 THEN 16 ELSE bubble.padding) + delta)]

handlePaddingChange(bubble, delta) ==
    [padding |-> Max(0, padding(bubble) + delta)]

handleLineHeightChange(bubble, delta, err) ==
    LET newHeight == Max(800, Min(3000, lineHeight(bubble) + delta + err))
    IN  [lineHeight |-> RoundToTenth(newHeight)]

handleLetterSpacingChange(bubble, delta) ==
    [letterSpacing |-> Max(-2, Min(20, letterSpacing(bubble) + delta))]

\* Faulty variant: enabling keeps the stored outline colour.
toggleStrokeKeepsColor(bubble) ==
    IF strokeWidth(bubble) > 0
      THEN [textStrokeWidth |-> 0]
      ELSE [textStrokeWidth |-> 3]

toggleStroke(bubble) ==
    IF strokeWidth(bubble) > 0
      THEN [textStrokeWidth |-> 0]
      ELSE [textStrokeWidth |-> 3, textStrokeColor |-> "#ffffff"]


\* isSelected={selectedBubbleId === bubble.id}
isSelected(selected, bubble) == selected = bubble.id

\* containerStyle.zIndex: isSelected ? 50 : 10
zIndex(selected, bubble) == IF isSelected(selected, bubble) THEN 50 ELSE 10

\* FONT_OPTIONS: the values of the five entries, in the order of the list
FONT_OPTIONS == <<"Sriracha", "Chakra Petch", "Itim", "Mali", "Bangers">>

\* The weight and the family the component reads: bubble.fontWeight || 'normal',
\* bubble.fontFamily || 'Sriracha'
fontWeight(bubble) == IF bubble.fontWeight = "" THEN "normal" ELSE bubble.fontWeight
fontFamily(bubble) == IF bubble.fontFamily = "" THEN "Sriracha" ELSE bubble.fontFamily

\* FONT_OPTIONS.findIndex(f => f.value === family): zero-based, -1 when absent
findIndex(family) ==
    LET hits == {i \in 1..Len(FONT_OPTIONS) : FONT_OPTIONS[i] = family}
    IN  IF hits = {} THEN -1
        ELSE (CHOOSE i \in hits : \A j \in hits : i <= j) - 1

\* Faulty variant: the button stores "bold" whatever the bubble showed
toggleBoldOneWay(bubble) ==
    [fontWeight |-> "bold"]

\* toggleBold()
toggleBold(bubble) ==
    [fontWeight |-> IF fontWeight(bubble) = "bold" THEN "normal" ELSE "bold"]

\* Faulty variant: the next index stops at the last entry instead of wrapping
cycleFontNoWrap(bubble) ==
    LET currentIndex == findIndex(fontFamily(bubble))
        nextIndex == Min(currentIndex + 1, Len(FONT_OPTIONS) - 1)
    IN  [fontFamily |-> FONT_OPTIONS[nextIndex + 1]]

\* cycleFont()
cycleFont(bubble) ==
    LET currentIndex == findIndex(fontFamily(bubble))
        nextIndex == (currentIndex + 1) % Len(FONT_OPTIONS)
    IN  [fontFamily |-> FONT_OPTIONS[nextIndex + 1]]


----------------------------------------------------------------------------
(* The effects that register the handlers on window *)

EventTypes == {"keydown", "mousemove", "mouseup"}

NoListeners == [type \in EventTypes |-> 0]

\* window.addEventListener(type, handler), the handler being a new function
addEventListener(l, type) == [l EXCEPT ![type] = @ + 1]

\* Faulty variant: the function passed is not the one that was registered, and
\* nothing is removed
removeEventListenerOther(l, type) == l

\* window.removeEventListener(type, handler), the handler being the function
\* the same run of the effect registered
removeEventListener(l, type) == [l EXCEPT ![type] = Max(@ - 1, 0)]

\* The effect of the keyboard shortcuts and the cleanup it returns
keydownEffect(l) == addEventListener(l, "keydown")
keydownCleanup(l) == removeEventListener(l, "keydown")

\* The effect of the global mouse handlers and the cleanup it returns
mouseEffect(l) == addEventListener(addEventListener(l, "mousemove"), "mouseup")
mouseCleanup(l) == removeEventListener(removeEventListener(l, "mousemove"), "mouseup")

\* useEffect(effect, deps) after a render: when a dependency changed, the
\* listeners are those left by the cleanup of the previous run and then the
\* effect
useEffect(l, changed, rerun) ==
    IF changed THEN rerun ELSE l

\* The effects of the first render
mountedListeners == mouseEffect(keydownEffect(NoListeners))

\* The effects of the render that follows a step: the dependencies are the
\* values the render sees, [selectedBubbleId, bubbles, clipboard] and
\* [selectedBubbleId, bubbles]
RunEffects ==
    listeners' =
        LET keydownDeps == <<selectedBubbleId', seenBubbles', clipboard'>>
                              # <<selectedBubbleId, seenBubbles, clipboard>>
            mouseDeps == <<selectedBubbleId', seenBubbles'>>
                              # <<selectedBubbleId, seenBubbles>>
            afterKeydown == useEffect(listeners, keydownDeps,
                                      keydownEffect(keydownCleanup(listeners)))
        IN  useEffect(afterKeydown, mouseDeps,
                      mouseEffect(mouseCleanup(afterKeydown)))

\* A step of the editor outside handleSave: it leaves the export alone, and the
\* effects of its render run; a pointer-down that captures a bubble in dragRef
\* is remembered
EditorStep ==
    /\ UNCHANGED <<isSaving, saves, clones, mounted>>
    /\ UNCHANGED <<serviceVars, appVars>>
    /\ RunEffects
    /\ dragTarget' =
          LET e == lastEvent'
              p == [x |-> e.x, y |-> e.y]
              captures ==
                \/ e.kind = "resizeMouseDown"
                      /\ startResize(IdleDrag, seenBubbles, p, e.id) # IdleDrag
                \/ e.kind = "bubbleMouseDown"
                      /\ startDrag(IdleDrag, seenBubbles, e.tagName, p, e.id) # IdleDrag
          IN  IF captures THEN e.id ELSE dragTarget

\* disabled={isSaving} on the Save button
saveDisabledNever(saving) == FALSE

saveDisabled(saving) == saving

\* The message of the alert of the catch block
SaveFailedMessage == "Failed to save image. Please try again."

----------------------------------------------------------------------------
(* services/geminiService: generateMangaPage and its generateSingleImage   *)

\* An error that carries no status, response.status or code
undefinedStatus == 0

\* `status` of the errors ai.models.generateContent rejects with
Statuses == {undefinedStatus, 400, 401, 403, 429, 503}

\* What one call of ai.models.generateContent comes to: a response with an
\* inlineData part, a response without one, or a rejection
ImageResponse == [kind |-> "image", status |-> undefinedStatus]

EmptyResponse == [kind |-> "empty", status |-> undefinedStatus]

ErrorResponse(status) == [kind |-> "error", status |-> status]

Responses ==
    {ImageResponse, EmptyResponse} \cup {ErrorResponse(s) : s \in Statuses}

isTerminal(status) == status = 400 \/ status = 401 \/ status = 403

isRetryable(status) == ~isTerminal(status)

\* if (isRetryable && retryCount < 4)
retriesOnceMore(status, retryCount) == isRetryable(status) /\ retryCount <= 4

retries(status, retryCount) == isRetryable(status) /\ retryCount < 4

\* const delay = 10000 * Math.pow(2, retryCount)
delay(retryCount) == 10000 * 2^retryCount

\* The pause before every variation but the first
VariationPause == 10000

NoFilesMessage == "No image files provided"

NoImagesMessage == "Failed to generate images. You may have exceeded your API quota. Please wait a moment or use a different API key."

FileReadMessage == "FileReader error"

\* generateMangaPage has not been called
NoPage ==
    [pc |-> "idle", imageFiles |-> 0, numberOfVariations |-> 0, i |-> 0,
     validImages |-> <<>>, waited |-> 0, error |-> null]

\* generateSingleImage is not running
NoSingle ==
    [retryCount |-> 0, attempts |-> 0, delays |-> <<>>, result |-> "none",
     response |-> EmptyResponse]

\* generateSingleImage(): retryCount = 0 and the first generateContent is sent
FirstAttempt ==
    [retryCount |-> 0, attempts |-> 1, delays |-> <<>>, result |-> "pending",
     response |-> EmptyResponse]

\* throw new Error(message), rethrown by the outer catch
thrown(p, message) == [p EXCEPT !.pc = "thrown", !.error = message]

\* After the loop: throw when no image was obtained, return the list otherwise
leavesLoopAllOrNothing(p) ==
    IF Len(p.validImages) < p.numberOfVariations
    THEN thrown(p, NoImagesMessage)
    ELSE [p EXCEPT !.pc = "returned"]

leavesLoop(p) ==
    IF Len(p.validImages) = 0
    THEN thrown(p, NoImagesMessage)
    ELSE [p EXCEPT !.pc = "returned"]

\* The loop test and what follows it: the next variation is requested (after
\* the pause when it is not the first one), or the loop is left
loopTest(p) ==
    IF p.i < p.numberOfVariations
    THEN [p EXCEPT !.pc = IF p.i > 0 THEN "pause" ELSE "request"]
    ELSE leavesLoop(p)

\* if (img) validImages.push(img), and i++
keepsImage(p) ==
    loopTest([p EXCEPT !.validImages = Append(p.validImages, p.i + 1),
                       !.i = p.i + 1])

----------------------------------------------------------------------------
(* App: the host application around the service and the Editor *)

\* The buttons of the variation count
VariationCounts == {1, 2, 3}

\* if (selectedImage) return the Editor view
editorView(selected) == selected # <<>>

\* if (generatedImages.length > 0) return the selection view
selectionView(selected, images) == ~editorView(selected) /\ images > 0

\* otherwise the upload view
uploadView(selected, images) ==
    ~editorView(selected) /\ ~selectionView(selected, images)

\* disabled={files.length === 0 || isGenerating} on the Generate button
generateDisabledWithoutFiles(count, generating) == count = 0

generateDisabled(count, generating) == count = 0 \/ generating

\* The errors the catch block of handleGenerate tells apart, by err.message
Rejections == {"PERMISSION_DENIED", "RESOURCE_EXHAUSTED", "other", ""}

PermissionMessage == "Permission denied. The selected model requires a valid API Key with billing enabled. Please try Standard mode or select a key."

QuotaMessage == "Server is busy (API Quota Exceeded). Please wait a minute before trying again."

FallbackMessage == "Failed to generate manga page. Please try again."

\* The message the catch block of handleGenerate shows for err.message
errorMessage(message) ==
    CASE message = "PERMISSION_DENIED" -> PermissionMessage
      [] message = "RESOURCE_EXHAUSTED" -> QuotaMessage
      [] message = "" -> FallbackMessage
      [] OTHER -> message

\* The call generateMangaPage(files, ..., useProModel, ..., variationCount, ...)
\* as handleGenerate makes it, with the key flag of that moment
Request(count, pro, key, variations) ==
    [files |-> count, useProModel |-> pro, hasApiKey |-> key,
     variationCount |-> variations]

----------------------------------------------------------------------------
(* The state machine *)

InitEditor ==
    /\ bubbles = <<>>
    /\ seenBubbles = <<>>
    /\ selectedBubbleId = null
    /\ clipboard = <<>>
    /\ dragRef = IdleDrag
    /\ now = 0
    /\ nOps = 0
    /\ lastEvent = Call("init", null)
    /\ isSaving = FALSE
    /\ saves = {}
    /\ clones = {}
    /\ listeners = mountedListeners
    /\ mounted = TRUE
    /\ dragTarget = null

\* generateMangaPage has not been called
InitService ==
    /\ page = NoPage
    /\ single = NoSingle

\* App before its first event
InitApp ==
    /\ files = 0
    /\ isGenerating = FALSE
    /\ generatedImages = 0
    /\ selectedImage = <<>>
    /\ useProModel = FALSE
    /\ hasApiKey = FALSE
    /\ variationCount = 3
    /\ error = null
    /\ pending = <<>>
    /\ checkKey = "pending"

\* The application as it starts where window.aistudio is defined
Init == InitEditor /\ InitService /\ InitApp /\ aistudio = TRUE

\* The application as it starts anywhere
InitAnywhere == InitEditor /\ InitService /\ InitApp /\ aistudio \in BOOLEAN

\* The clock advances between events.
Tick ==
    /\ nOps < MaxOps
    /\ now' = now + 1
    /\ nOps' = nOps + 1
    /\ lastEvent' = Call("tick", null)
    /\ UNCHANGED <<bubbles, seenBubbles, selectedBubbleId, clipboard, dragRef>>
    /\ EditorStep

\* The clock advances between events, up to MaxNow.
Elapse ==
    /\ now < MaxNow
    /\ now' = now + 1
    /\ lastEvent' = Call("tick", null)
    /\ UNCHANGED <<bubbles, seenBubbles, selectedBubbleId, clipboard, dragRef,
                   nOps>>
    /\ EditorStep

\* The render scheduled by a pointer-move: the closures see the moved scene.
Render ==
    /\ mounted
    /\ seenBubbles # bubbles
    /\ seenBubbles' = bubbles
    /\ lastEvent' = Call("render", null)
    /\ UNCHANGED <<bubbles, selectedBubbleId, clipboard, dragRef, now, nOps>>
    /\ EditorStep

\* addBubble(type): a click on a toolbar button
AddBubble(type) ==
    /\ mounted
    /\ nOps < MaxOps
    /\ LET newBubble == NewBubble(type, now)
       IN  /\ bubbles' = Append(seenBubbles, newBubble)
           /\ selectedBubbleId' = newBubble.id
    /\ seenBubbles' = bubbles'
    /\ nOps' = nOps + 1
    /\ lastEvent' = Call("addBubble", null)
    /\ UNCHANGED <<clipboard, dragRef, now>>
    /\ EditorStep

\* updateBubble(id, updates), called through onUpdate by a control of a bubble
OnUpdate(id, updates) ==
    /\ mounted
    /\ bubbles' = updateBubble(bubbles, id, updates)
    /\ seenBubbles' = bubbles'
    /\ lastEvent' = Call("updateBubble", id)
    /\ UNCHANGED <<selectedBubbleId, clipboard, dragRef, now, nOps>>
    /\ EditorStep

\* deleteBubble(id), called through onDelete or by the toolbar's delete button
OnDelete(id) ==
    /\ mounted
    /\ bubbles' = deleteBubbleScene(bubbles, id)
    /\ selectedBubbleId' = deleteBubbleSelection(selectedBubbleId, id)
    /\ seenBubbles' = bubbles'
    /\ lastEvent' = Call("deleteBubble", id)
    /\ UNCHANGED <<clipboard, dragRef, now, nOps>>
    /\ EditorStep

\* handleKeyDown(e): the three shortcuts, tested one after the other
KeyDown(e) ==
    LET deletes == keyDeletes(e, selectedBubbleId)
        copies == keyCopies(e, selectedBubbleId)
        pastes == keyPastes(e, clipboard)
        newId == DateNowString(now)
        afterDelete == IF deletes THEN deleteBubbleScene(bubbles, selectedBubbleId)
                       ELSE bubbles
        selAfterDelete ==
            IF deletes THEN deleteBubbleSelection(selectedBubbleId, selectedBubbleId)
            ELSE selectedBubbleId
        setsState == deletes \/ (copies /\ Find(seenBubbles, selectedBubbleId) # <<>>)
                        \/ pastes
    IN  /\ listeners["keydown"] > 0
        /\ pastes => nOps < MaxOps
        /\ bubbles' = IF pastes
                        THEN Append(afterDelete, PastedBubble(clipboard[1], newId))
                        ELSE afterDelete
        /\ selectedBubbleId' = IF pastes THEN newId ELSE selAfterDelete
        /\ clipboard' = clipboardAfterKey(e, seenBubbles, selectedBubbleId, clipboard)
        /\ seenBubbles' = IF setsState THEN bubbles' ELSE seenBubbles
        /\ nOps' = IF pastes THEN nOps + 1 ELSE nOps
        /\ lastEvent' = Event("keydown", null, ShortcutOf(e), TextInputControl(e.target))
        /\ UNCHANGED <<dragRef, now>>
        /\ EditorStep

\* Faulty variant: the container does not stop the propagation, so the canvas
\* handler runs next and clears the selection.
BubbleMouseDownPropagates(i, tagName, p) ==
    /\ mounted
    /\ i \in 1..Len(seenBubbles)
    /\ tagName \in ToolbarTags => seenBubbles[i].id = selectedBubbleId
    /\ selectedBubbleId' = null
    /\ dragRef' = startDrag(dragRef, seenBubbles, tagName, p, seenBubbles[i].id)
    /\ seenBubbles' = bubbles
    /\ lastEvent' = PointerEvent("bubbleMouseDown", seenBubbles[i].id, tagName, p)
    /\ UNCHANGED <<bubbles, clipboard, now, nOps>>
    /\ EditorStep

\* onMouseDown of the container of the i-th rendered bubble:
\* e.stopPropagation(); onSelect(bubble.id); onDragStart(e, bubble.id)
BubbleMouseDown(i, tagName, p) ==
    /\ mounted
    /\ i \in 1..Len(seenBubbles)
    /\ tagName \in ToolbarTags => seenBubbles[i].id = selectedBubbleId
    /\ selectedBubbleId' = seenBubbles[i].id
    /\ dragRef' = startDrag(dragRef, seenBubbles, tagName, p, seenBubbles[i].id)
    /\ seenBubbles' = bubbles
    /\ lastEvent' = PointerEvent("bubbleMouseDown", seenBubbles[i].id, tagName, p)
    /\ UNCHANGED <<bubbles, clipboard, now, nOps>>
    /\ EditorStep

\* onMouseDown of the resize handle of the i-th rendered bubble (shown when it
\* is selected): onResizeStart(e, bubble.id), which stops the propagation
ResizeMouseDown(i, p) ==
    /\ mounted
    /\ i \in 1..Len(seenBubbles)
    /\ seenBubbles[i].id = selectedBubbleId
    /\ dragRef' = startResize(dragRef, seenBubbles, p, seenBubbles[i].id)
    /\ lastEvent' = PointerEvent("resizeMouseDown", seenBubbles[i].id, "DIV", p)
    /\ UNCHANGED <<bubbles, seenBubbles, selectedBubbleId, clipboard, now,
                   nOps>>
    /\ EditorStep

\* onMouseDown of the canvas: setSelectedBubbleId(null)
CanvasMouseDown ==
    /\ mounted
    /\ selectedBubbleId' = null
    /\ seenBubbles' = bubbles
    /\ lastEvent' = Call("canvasMouseDown", null)
    /\ UNCHANGED <<bubbles, clipboard, dragRef, now, nOps>>
    /\ EditorStep

\* handleGlobalMouseMove(e)
MouseMove(p) ==
    /\ listeners["mousemove"] > 0
    /\ bubbles' = dragMoved(bubbles, dragRef, selectedBubbleId, p)
    /\ IF dragRef.mode = "IDLE" \/ selectedBubbleId = null
         THEN UNCHANGED nOps
         ELSE /\ nOps < MaxOps
              /\ nOps' = nOps + 1
    /\ lastEvent' = PointerEvent("mousemove", null, "none", p)
    /\ UNCHANGED <<seenBubbles, selectedBubbleId, clipboard, dragRef, now>>
    /\ EditorStep

\* handleGlobalMouseUp()
MouseUp ==
    /\ listeners["mouseup"] > 0
    /\ dragRef' = released(dragRef)
    /\ lastEvent' = Call("mouseup", null)
    /\ UNCHANGED <<bubbles, seenBubbles, selectedBubbleId, clipboard, now,
                   nOps>>
    /\ EditorStep

\* handleSave(), from the click on the Save button, up to its first await:
\* setIsSaving(true); setSelectedBubbleId(null); setTimeout(resolve, 100)
HandleSave ==
    /\ mounted
    /\ ~saveDisabled(isSaving)
    /\ nOps < MaxOps
    /\ isSaving' = TRUE
    /\ selectedBubbleId' = null
    /\ saves' = saves \cup {[call |-> nOps + 1, await |-> "setTimeout"]}
    /\ seenBubbles' = bubbles
    /\ nOps' = nOps + 1
    /\ lastEvent' = Call("handleSave", null)
    /\ UNCHANGED <<bubbles, clipboard, dragRef, now, clones, mounted,
                   dragTarget, serviceVars, appVars>>
    /\ RunEffects

\* handleSave() after the timer, up to its second await: the canvas is cloned
\* as it is rendered now, the clone is attached, html2canvas(clone) starts
SaveCapture(save) ==
    /\ save \in saves
    /\ save.await = "setTimeout"
    /\ clones' = clones \cup {[call |-> save.call,
                               selectedBubbleId |-> selectedBubbleId]}
    /\ saves' = (saves \ {save}) \cup {[save EXCEPT !.await = "html2canvas"]}
    /\ lastEvent' = Call("cloneNode", selectedBubbleId)
    /\ UNCHANGED <<bubbles, seenBubbles, selectedBubbleId, clipboard, dragRef,
                   now, nOps, isSaving, listeners, mounted,
                   dragTarget, serviceVars, appVars>>

\* handleSave() after html2canvas returned a canvas: the clone is removed, the
\* download link is clicked; finally setIsSaving(false)
SaveResolved(save) ==
    /\ save \in saves
    /\ save.await = "html2canvas"
    /\ clones' = {clone \in clones : clone.call # save.call}
    /\ saves' = saves \ {save}
    /\ isSaving' = FALSE
    /\ seenBubbles' = bubbles
    /\ lastEvent' = Call("download", null)
    /\ UNCHANGED <<bubbles, selectedBubbleId, clipboard, dragRef, now, nOps,
                   mounted,
                   dragTarget, serviceVars, appVars>>
    /\ RunEffects

\* Faulty variant: no finally block, the flag is reset on the success path only
SaveRejectedStaysBusy(save) ==
    /\ save \in saves
    /\ save.await = "html2canvas"
    /\ saves' = saves \ {save}
    /\ seenBubbles' = bubbles
    /\ lastEvent' = AlertEvent("catch", SaveFailedMessage)
    /\ UNCHANGED <<bubbles, selectedBubbleId, clipboard, dragRef, now, nOps,
                   clones, mounted, isSaving,
                   dragTarget, serviceVars, appVars>>
    /\ RunEffects

\* Faulty variant: the catch block clears the scene with the failed page
SaveRejectedClearsScene(save) ==
    /\ save \in saves
    /\ save.await = "html2canvas"
    /\ saves' = saves \ {save}
    /\ isSaving' = FALSE
    /\ bubbles' = <<>>
    /\ seenBubbles' = bubbles'
    /\ lastEvent' = AlertEvent("catch", SaveFailedMessage)
    /\ UNCHANGED <<selectedBubbleId, clipboard, dragRef, now, nOps,
                   clones, mounted,
                   dragTarget, serviceVars, appVars>>
    /\ RunEffects

\* handleSave() after html2canvas threw: the catch block logs the error and
\* shows the alert; finally setIsSaving(false)
SaveRejected(save) ==
    /\ save \in saves
    /\ save.await = "html2canvas"
    /\ saves' = saves \ {save}
    /\ isSaving' = FALSE
    /\ seenBubbles' = bubbles
    /\ lastEvent' = AlertEvent("catch", SaveFailedMessage)
    /\ UNCHANGED <<bubbles, selectedBubbleId, clipboard, dragRef, now, nOps,
                   clones, mounted,
                   dragTarget, serviceVars, appVars>>
    /\ RunEffects

\* handleSave() after html2canvas returned a canvas that canvas.toDataURL
\* refuses (allowTaint: true): the clone is removed already; the catch block
\* shows the alert; finally setIsSaving(false)
SaveTainted(save) ==
    /\ save \in saves
    /\ save.await = "html2canvas"
    /\ clones' = {clone \in clones : clone.call # save.call}
    /\ saves' = saves \ {save}
    /\ isSaving' = FALSE
    /\ seenBubbles' = bubbles
    /\ lastEvent' = AlertEvent("catch", SaveFailedMessage)
    /\ UNCHANGED <<bubbles, selectedBubbleId, clipboard, dragRef, now, nOps,
                   mounted,
                   dragTarget, serviceVars, appVars>>
    /\ RunEffects

\* The Editor is unmounted: the cleanups of the two effects run
Unmount ==
    /\ mounted
    /\ mounted' = FALSE
    /\ listeners' = mouseCleanup(keydownCleanup(listeners))
    /\ lastEvent' = Call("unmount", null)
    /\ UNCHANGED <<bubbles, seenBubbles, selectedBubbleId, clipboard, dragRef,
                   now, nOps, isSaving, saves, clones,
                   dragTarget, serviceVars, appVars>>

\* A control of the toolbar of the i-th rendered bubble, shown while that bubble
\* is selected, calls onUpdate(bubble.id, updates) from its click or change
\* handler; the handler computed updates from the bubble it was rendered with.
StyleControl(i, kind, step, before, updates) ==
    /\ mounted
    /\ i \in 1..Len(seenBubbles)
    /\ seenBubbles[i].id = selectedBubbleId
    /\ bubbles' = updateBubble(bubbles, seenBubbles[i].id, updates)
    /\ seenBubbles' = bubbles'
    /\ lastEvent' = StepEvent(kind, seenBubbles[i].id, step, before)
    /\ UNCHANGED <<selectedBubbleId, clipboard, dragRef, now, nOps>>
    /\ EditorStep

\* The font size buttons: handleFontSizeChange(-2), handleFontSizeChange(2)
FontSizeClick(i, delta) ==
    /\ i \in 1..Len(seenBubbles)
    /\ StyleControl(i, "fontSize", delta, fontSize(seenBubbles[i]),
                    handleFontSizeChange(seenBubbles[i], delta))

\* The same buttons where the earlier BubbleComponent is the one mounted
FontSizeClickEarlier(i, delta) ==
    /\ i \in 1..Len(seenBubbles)
    /\ StyleControl(i, "fontSize", delta, fontSize(seenBubbles[i]),
                    handleFontSizeChangeEarlier(seenBubbles[i], delta))

\* The padding buttons: handlePaddingChange(-2), handlePaddingChange(2)
PaddingClick(i, delta) ==
    /\ i \in 1..Len(seenBubbles)
    /\ handlePaddingChange(seenBubbles[i], delta).padding <= MaxPadding
    /\ StyleControl(i, "padding", delta, padding(seenBubbles[i]),
                    handlePaddingChange(seenBubbles[i], delta))

\* The line height buttons: handleLineHeightChange(-0.1), handleLineHeightChange(0.1)
LineHeightClick(i, delta, err) ==
    /\ i \in 1..Len(seenBubbles)
    /\ StyleControl(i, "lineHeight", delta, lineHeight(seenBubbles[i]),
                    handleLineHeightChange(seenBubbles[i], delta, err))

\* The letter spacing buttons: handleLetterSpacingChange(-1), handleLetterSpacingChange(1)
LetterSpacingClick(i, delta) ==
    /\ i \in 1..Len(seenBubbles)
    /\ StyleControl(i, "letterSpacing", delta, letterSpacing(seenBubbles[i]),
                    handleLetterSpacingChange(seenBubbles[i], delta))

\* The outline button: toggleStroke()
ToggleStrokeClick(i) ==
    /\ i \in 1..Len(seenBubbles)
    /\ StyleControl(i, "toggleStroke", 0, strokeWidth(seenBubbles[i]),
                    toggleStroke(seenBubbles[i]))

\* The outline colour input, rendered while strokeWidth > 0:
\* onUpdate(bubble.id, { textStrokeColor: e.target.value })
StrokeColorChange(i, color) ==
    /\ i \in 1..Len(seenBubbles)
    /\ strokeWidth(seenBubbles[i]) > 0
    /\ StyleControl(i, "strokeColor", 0, 0, [textStrokeColor |-> color])


\* The bold button: toggleBold()
ToggleBoldClick(i) ==
    /\ i \in 1..Len(seenBubbles)
    /\ StyleControl(i, "toggleBold", 0,
                    IF fontWeight(seenBubbles[i]) = "bold" THEN 1 ELSE 0,
                    toggleBold(seenBubbles[i]))

\* The font button: cycleFont()
CycleFontClick(i) ==
    /\ i \in 1..Len(seenBubbles)
    /\ StyleControl(i, "cycleFont", 0, findIndex(fontFamily(seenBubbles[i])),
                    cycleFont(seenBubbles[i]))

----------------------------------------------------------------------------
(* Specifications *)

\* Ids a caller may pass: those of the rendered bubbles and one no entity has.
UnknownId == "unknown"
IdSpace == IdsOf(seenBubbles) \cup {UnknownId}

\* Partials passed to onUpdate by the controls of a bubble
UpdateSamples == {[text |-> "Hello"]}

\* Types added in the editor specification
EditorTypes == {SPEECH}

\* The three shortcuts, typed outside any text-input control
EditorKeyEvents ==
    {[key |-> "Backspace", ctrlKey |-> FALSE, metaKey |-> FALSE,
      target |-> [tagName |-> "BODY", isContentEditable |-> FALSE]],
     [key |-> "c", ctrlKey |-> TRUE, metaKey |-> FALSE,
      target |-> [tagName |-> "BODY", isContentEditable |-> FALSE]],
     [key |-> "V", ctrlKey |-> FALSE, metaKey |-> TRUE,
      target |-> [tagName |-> "BODY", isContentEditable |-> FALSE]]}

\* Creation alone, over every bubble type
NextCreate ==
    \/ Tick
    \/ \E type \in BubbleType : AddBubble(type)

SpecCreate == Init /\ [][NextCreate]_vars

\* The editor: creation, updates, deletion, shortcuts, selection and drags
Next ==
    \/ Tick
    \/ Render
    \/ \E type \in EditorTypes : AddBubble(type)
    \/ \E id \in IdSpace, updates \in UpdateSamples : OnUpdate(id, updates)
    \/ \E id \in IdSpace : OnDelete(id)
    \/ \E e \in EditorKeyEvents : KeyDown(e)
    \/ \E i \in 1..MaxOps, tagName \in BodyTags \cup ToolbarTags, p \in DownPointers :
          BubbleMouseDown(i, tagName, p)
    \/ \E i \in 1..MaxOps, p \in DownPointers : ResizeMouseDown(i, p)
    \/ CanvasMouseDown
    \/ \E p \in MovePointers : MouseMove(p)
    \/ MouseUp

Spec == Init /\ [][Next]_vars

\* The keyboard shortcuts: every key, modifier and target, on scenes built by
\* add, paste, selection and deselection
NextKeys ==
    \/ Tick
    \/ \E type \in EditorTypes : AddBubble(type)
    \/ \E e \in KeyEvents : KeyDown(e)
    \/ \E i \in 1..MaxOps, p \in DownPointers : BubbleMouseDown(i, "DIV", p)
    \/ CanvasMouseDown

SpecKeys == Init /\ [][NextKeys]_vars

\* The pointer: selection, drags and resizes over several pointer positions,
\* with the ways of losing or changing the selection during a drag
NextDrag ==
    \/ Tick
    \/ Render
    \/ \E type \in EditorTypes : AddBubble(type)
    \/ \E id \in IdsOf(seenBubbles) : OnDelete(id)
    \/ \E i \in 1..MaxOps, tagName \in BodyTags \cup ToolbarTags, p \in DownPointers :
          BubbleMouseDown(i, tagName, p)
    \/ \E i \in 1..MaxOps, p \in DownPointers : ResizeMouseDown(i, p)
    \/ CanvasMouseDown
    \/ \E p \in DragMovePointers : MouseMove(p)
    \/ MouseUp

SpecDrag == Init /\ [][NextDrag]_vars

\* Types added in the style specifications
StyleTypes == {SPEECH, PLAIN_TEXT}

\* The font size buttons and the outline controls, on one bubble
NextFont ==
    \/ bubbles = <<>> /\ \E type \in StyleTypes : AddBubble(type)
    \/ \E i \in 1..MaxOps, delta \in FontSizeSteps : FontSizeClick(i, delta)
    \/ \E i \in 1..MaxOps : ToggleStrokeClick(i)
    \/ \E i \in 1..MaxOps, color \in StrokeColors : StrokeColorChange(i, color)

SpecFont == Init /\ [][NextFont]_vars

\* The font size buttons of the earlier version of the component, on one bubble
NextFontEarlier ==
    \/ bubbles = <<>> /\ \E type \in StyleTypes : AddBubble(type)
    \/ \E i \in 1..MaxOps, delta \in FontSizeSteps : FontSizeClickEarlier(i, delta)

SpecFontEarlier == Init /\ [][NextFontEarlier]_vars

\* The spacing buttons (padding, line height, letter spacing), on one bubble
NextSpacing ==
    \/ bubbles = <<>> /\ \E type \in StyleTypes : AddBubble(type)
    \/ \E i \in 1..MaxOps, delta \in PaddingSteps : PaddingClick(i, delta)
    \/ \E i \in 1..MaxOps, delta \in LineHeightSteps, err \in FloatErrors :
          LineHeightClick(i, delta, err)
    \/ \E i \in 1..MaxOps, delta \in LetterSpacingSteps : LetterSpacingClick(i, delta)

SpecSpacing == Init /\ [][NextSpacing]_vars



\* The bold and the font buttons, on bubbles of every type
NextTypeface ==
    \/ Tick
    \/ Len(bubbles) < 2 /\ \E type \in BubbleType : AddBubble(type)
    \/ \E i \in 1..MaxOps, tagName \in BodyTags, p \in DownPointers :
          BubbleMouseDown(i, tagName, p)
    \/ \E i \in 1..MaxOps : ToggleBoldClick(i)
    \/ \E i \in 1..MaxOps : CycleFontClick(i)

SpecTypeface == Init /\ [][NextTypeface]_vars


\* The export: the Save button and the two awaits of handleSave, among the
\* events that select, deselect, create and delete
NextExport ==
    \/ Tick
    \/ \E type \in EditorTypes : AddBubble(type)
    \/ \E i \in 1..MaxOps, p \in DownPointers : BubbleMouseDown(i, "DIV", p)
    \/ CanvasMouseDown
    \/ \E e \in EditorKeyEvents : KeyDown(e)
    \/ HandleSave
    \/ \E save \in saves : SaveCapture(save)
    \/ \E save \in saves : SaveResolved(save)
    \/ \E save \in saves : SaveRejected(save)
    \/ \E save \in saves : SaveTainted(save)

SpecExport == Init /\ [][NextExport]_vars

\* The same, where the timer of the first await fires and the promise of
\* html2canvas settles
SpecExportFair ==
    /\ Init
    /\ [][NextExport]_vars
    /\ WF_vars(\E save \in saves : SaveCapture(save))
    /\ WF_vars(\E save \in saves :
                  SaveResolved(save) \/ SaveRejected(save) \/ SaveTainted(save))



\* The keys of the copy and the paste shortcuts
ClipboardKeyEvents ==
    {e \in EditorKeyEvents : ToLowerCase(e.key) \in {"c", "v"}}

\* A type whose default size the resizes of DragMovePointers bring under both
\* minima
SizeTypes == {SPEECH}

\* Pointer positions of a drag: one that shrinks under both minima, one that
\* grows
SizeMovePointers == {[x |-> 0, y |-> 0], [x |-> 140, y |-> 90]}

\* The size of the entities: creation, copy and paste, move and resize, a
\* style update
NextSize ==
    \/ Tick
    \/ Render
    \/ \E type \in SizeTypes : AddBubble(type)
    \/ \E e \in ClipboardKeyEvents : KeyDown(e)
    \/ \E i \in 1..MaxOps, p \in DownPointers : BubbleMouseDown(i, "DIV", p)
    \/ \E i \in 1..MaxOps, p \in DownPointers : ResizeMouseDown(i, p)
    \/ \E p \in SizeMovePointers : MouseMove(p)
    \/ MouseUp
    \/ \E i \in 1..MaxOps : ToggleBoldClick(i)

SpecSize == Init /\ [][NextSize]_vars


\* A type other than the one a bubble gets when no type is given
IdentityTypes == {BOX}

\* The entities through their life: creation, copy and paste, deletion,
\* selection, move and resize, a style update, export
NextIdentity ==
    \/ Tick
    \/ \E type \in IdentityTypes : AddBubble(type)
    \/ \E e \in EditorKeyEvents : KeyDown(e)
    \/ \E i \in 1..MaxOps, p \in DownPointers : BubbleMouseDown(i, "DIV", p)
    \/ \E i \in 1..MaxOps, p \in DownPointers : ResizeMouseDown(i, p)
    \/ CanvasMouseDown
    \/ \E p \in MovePointers : MouseMove(p)
    \/ \E i \in 1..MaxOps : ToggleBoldClick(i)
    \/ HandleSave
    \/ \E save \in saves : SaveCapture(save)
    \/ \E save \in saves : SaveResolved(save)

SpecIdentity == Init /\ [][NextIdentity]_vars


\* The session: the events that change the selection, the scene and the
\* clipboard, and the teardown
NextSession ==
    \/ Tick
    \/ Render
    \/ \E type \in EditorTypes : AddBubble(type)
    \/ \E e \in EditorKeyEvents : KeyDown(e)
    \/ \E i \in 1..MaxOps, p \in DownPointers : BubbleMouseDown(i, "DIV", p)
    \/ CanvasMouseDown
    \/ \E p \in MovePointers : MouseMove(p)
    \/ MouseUp
    \/ Unmount

SpecSession == Init /\ [][NextSession]_vars


\* A drag during which the selection changes: one bubble is created, copied
\* and pasted at a later time, among pointer-downs, pointer-moves, pointer-ups
NextDragPaste ==
    \/ Elapse
    \/ Render
    \/ bubbles = <<>> /\ \E type \in EditorTypes : AddBubble(type)
    \/ \E e \in ClipboardKeyEvents : KeyDown(e)
    \/ \E i \in 1..MaxOps, p \in DownPointers : BubbleMouseDown(i, "DIV", p)
    \/ \E i \in 1..MaxOps, p \in DownPointers : ResizeMouseDown(i, p)
    \/ \E p \in MovePointers : MouseMove(p)
    \/ MouseUp

SpecDragPaste == Init /\ [][NextDragPaste]_vars

----------------------------------------------------------------------------
(* services/geminiService: the steps of one call of generateMangaPage *)

\* generateMangaPage(imageFiles, ..., numberOfVariations, ...) up to its first
\* await: the check of the input, then the first file is read
GenerateMangaPage(imageFiles, numberOfVariations) ==
    /\ page.pc = "idle"
    /\ LET p == [NoPage EXCEPT !.imageFiles = imageFiles,
                               !.numberOfVariations = numberOfVariations]
       IN  page' = IF imageFiles = 0
                   THEN thrown(p, NoFilesMessage)
                   ELSE [p EXCEPT !.pc = "reading"]
    /\ single' = NoSingle
    /\ UNCHANGED <<editorVars, appVars>>

\* Every fileToGenerativePart(file) resolved: the loop is entered, and the
\* first generateSingleImage() sends its request
FilesRead ==
    /\ page.pc = "reading"
    /\ page' = loopTest(page)
    /\ single' = IF page'.pc = "request" THEN FirstAttempt ELSE NoSingle
    /\ UNCHANGED <<editorVars, appVars>>

\* reader.onerror: fileToGenerativePart(file) rejects
FileReadFails ==
    /\ page.pc = "reading"
    /\ page' = thrown(page, FileReadMessage)
    /\ UNCHANGED <<single, editorVars, appVars>>

\* await ai.models.generateContent(...) settles, inside generateSingleImage
RequestSettles(response) ==
    /\ page.pc = "request"
    /\ LET answered == [single EXCEPT !.response = response]
       IN  CASE response.kind = "image" ->
                  /\ single' = [answered EXCEPT !.result = "image"]
                  /\ page' = keepsImage(page)
             [] response.kind = "empty" ->
                  /\ single' = [answered EXCEPT !.result = "null"]
                  /\ page' = leavesLoop(page)
             [] response.kind = "error"
                      /\ retries(response.status, single.retryCount) ->
                  /\ single' = [answered EXCEPT
                                  !.delays = Append(single.delays,
                                                    delay(single.retryCount))]
                  /\ page' = [page EXCEPT !.pc = "backoff"]
             [] OTHER ->
                  /\ single' = [answered EXCEPT !.result = "null"]
                  /\ page' = leavesLoop(page)
    /\ UNCHANGED <<editorVars, appVars>>

\* The timer of the backoff fires: return generateSingleImage(retryCount + 1)
BackoffElapsed ==
    /\ page.pc = "backoff"
    /\ single' = [single EXCEPT !.retryCount = single.retryCount + 1,
                                !.attempts = single.attempts + 1]
    /\ page' = [page EXCEPT !.pc = "request",
                            !.waited = page.waited
                                         + single.delays[Len(single.delays)]]
    /\ UNCHANGED <<editorVars, appVars>>

\* The timer of the pause between two variations fires: generateSingleImage()
PauseElapsed ==
    /\ page.pc = "pause"
    /\ single' = FirstAttempt
    /\ page' = [page EXCEPT !.pc = "request",
                            !.waited = page.waited + VariationPause]
    /\ UNCHANGED <<editorVars, appVars>>

\* One call of generateMangaPage, with up to MaxFiles files and up to
\* MaxVariations variations
NextService ==
    \/ \E f \in 0..MaxFiles, n \in 0..MaxVariations : GenerateMangaPage(f, n)
    \/ FilesRead
    \/ FileReadFails
    \/ \E r \in Responses : RequestSettles(r)
    \/ BackoffElapsed
    \/ PauseElapsed

SpecService == Init /\ [][NextService]_vars

\* The same call when every promise it awaits settles: the file reads and the
\* requests come to an end, the timers fire
SpecServiceFair ==
    /\ SpecService
    /\ WF_vars(FilesRead \/ FileReadFails)
    /\ WF_vars(\E r \in Responses : RequestSettles(r))
    /\ WF_vars(BackoffElapsed)
    /\ WF_vars(PauseElapsed)

----------------------------------------------------------------------------
(* App: its effect and its handlers *)

\* checkKey() of the mount effect resolves
CheckKey(selected) ==
    /\ checkKey = "pending"
    /\ checkKey' = "done"
    /\ hasApiKey' = IF aistudio /\ selected THEN TRUE ELSE hasApiKey
    /\ UNCHANGED <<files, isGenerating, generatedImages, selectedImage,
                   useProModel, variationCount, error, pending, aistudio>>
    /\ UNCHANGED <<editorVars, serviceVars>>

\* handleSelectKey() after openSelectKey() resolved
handleSelectKey ==
    /\ hasApiKey' = IF aistudio THEN TRUE ELSE hasApiKey
    /\ error' = IF aistudio THEN null ELSE error

\* The link "Change API Key"
ChangeKeyClick ==
    /\ uploadView(selectedImage, generatedImages)
    /\ hasApiKey
    /\ handleSelectKey
    /\ UNCHANGED <<files, isGenerating, generatedImages, selectedImage,
                   useProModel, variationCount, pending, aistudio, checkKey>>
    /\ UNCHANGED <<editorVars, serviceVars>>

\* handleFileChange with count new files
HandleFileChange(count) ==
    /\ uploadView(selectedImage, generatedImages)
    /\ count > 0
    /\ files + count <= MaxFiles
    /\ files' = files + count
    /\ error' = null
    /\ UNCHANGED <<isGenerating, generatedImages, selectedImage, useProModel,
                   hasApiKey, variationCount, pending, aistudio, checkKey>>
    /\ UNCHANGED <<editorVars, serviceVars>>

\* removeFile(index)
RemoveFile ==
    /\ uploadView(selectedImage, generatedImages)
    /\ files > 0
    /\ files' = files - 1
    /\ UNCHANGED <<isGenerating, generatedImages, selectedImage, useProModel,
                   hasApiKey, variationCount, error, pending, aistudio,
                   checkKey>>
    /\ UNCHANGED <<editorVars, serviceVars>>

\* The buttons Standard and Pro
SetUseProModel(pro) ==
    /\ uploadView(selectedImage, generatedImages)
    /\ useProModel' = pro
    /\ UNCHANGED <<files, isGenerating, generatedImages, selectedImage,
                   hasApiKey, variationCount, error, pending, aistudio,
                   checkKey>>
    /\ UNCHANGED <<editorVars, serviceVars>>

\* The buttons of the variation count
SetVariationCount(count) ==
    /\ uploadView(selectedImage, generatedImages)
    /\ variationCount' = count
    /\ UNCHANGED <<files, isGenerating, generatedImages, selectedImage,
                   useProModel, hasApiKey, error, pending, aistudio, checkKey>>
    /\ UNCHANGED <<editorVars, serviceVars>>

\* handleGenerate() up to its await of generateMangaPage; confirmed is the
\* answer to window.confirm
handleGenerate(confirmed) ==
    IF files = 0
    THEN UNCHANGED <<isGenerating, generatedImages, useProModel, hasApiKey,
                     error, pending>>
    ELSE IF useProModel /\ ~hasApiKey
    THEN IF confirmed
         THEN /\ handleSelectKey
              /\ UNCHANGED <<isGenerating, generatedImages, useProModel,
                             pending>>
         ELSE /\ useProModel' = FALSE
              /\ UNCHANGED <<isGenerating, generatedImages, hasApiKey, error,
                             pending>>
    ELSE /\ Len(pending) < MaxPending
         /\ isGenerating' = TRUE
         /\ error' = null
         /\ generatedImages' = 0
         /\ pending' = Append(pending, Request(files, useProModel, hasApiKey,
                                               variationCount))
         /\ UNCHANGED <<useProModel, hasApiKey>>

\* The button "Generate Manga"
GenerateClick(confirmed) ==
    /\ uploadView(selectedImage, generatedImages)
    /\ ~generateDisabled(files, isGenerating)
    /\ handleGenerate(confirmed)
    /\ UNCHANGED <<files, selectedImage, variationCount, aistudio, checkKey>>
    /\ UNCHANGED <<editorVars, serviceVars>>

\* The button "Re-generate"
RegenerateClick(confirmed) ==
    /\ selectionView(selectedImage, generatedImages)
    /\ handleGenerate(confirmed)
    /\ UNCHANGED <<files, selectedImage, variationCount, aistudio, checkKey>>
    /\ UNCHANGED <<editorVars, serviceVars>>

\* handleGenerate() after generateMangaPage returned count images
GenerateResolved(count) ==
    /\ pending # <<>>
    /\ count \in 1..Head(pending).variationCount
    /\ generatedImages' = count
    /\ isGenerating' = FALSE
    /\ pending' = Tail(pending)
    /\ UNCHANGED <<files, selectedImage, useProModel, hasApiKey,
                   variationCount, error, aistudio, checkKey>>
    /\ UNCHANGED <<editorVars, serviceVars>>

\* handleGenerate() after generateMangaPage threw: catch, then finally
GenerateRejected(message) ==
    /\ pending # <<>>
    /\ hasApiKey' = IF message = "PERMISSION_DENIED" THEN FALSE ELSE hasApiKey
    /\ error' = errorMessage(message)
    /\ isGenerating' = FALSE
    /\ pending' = Tail(pending)
    /\ UNCHANGED <<files, generatedImages, selectedImage, useProModel,
                   variationCount, aistudio, checkKey>>
    /\ UNCHANGED <<editorVars, serviceVars>>

\* A click on a variation of the selection view
SelectImage(k) ==
    /\ selectionView(selectedImage, generatedImages)
    /\ k \in 1..generatedImages
    /\ selectedImage' = <<k>>
    /\ UNCHANGED <<files, isGenerating, generatedImages, useProModel,
                   hasApiKey, variationCount, error, pending, aistudio,
                   checkKey>>
    /\ UNCHANGED <<editorVars, serviceVars>>

\* The button "Discard & Back"
DiscardClick ==
    /\ selectionView(selectedImage, generatedImages)
    /\ generatedImages' = 0
    /\ UNCHANGED <<files, isGenerating, selectedImage, useProModel, hasApiKey,
                   variationCount, error, pending, aistudio, checkKey>>
    /\ UNCHANGED <<editorVars, serviceVars>>

\* handleBackToSelection
HandleBackToSelection ==
    /\ editorView(selectedImage)
    /\ generatedImages > 1
    /\ selectedImage' = <<>>
    /\ UNCHANGED <<files, isGenerating, generatedImages, useProModel,
                   hasApiKey, variationCount, error, pending, aistudio,
                   checkKey>>
    /\ UNCHANGED <<editorVars, serviceVars>>

\* handleReset
HandleReset ==
    /\ editorView(selectedImage)
    /\ generatedImages' = 0
    /\ selectedImage' = <<>>
    /\ files' = 0
    /\ error' = null
    /\ UNCHANGED <<isGenerating, useProModel, hasApiKey, variationCount,
                   pending, aistudio, checkKey>>
    /\ UNCHANGED <<editorVars, serviceVars>>

\* The host application: files are chosen, options set, pages generated,
\* variations selected; window.aistudio is there or not
NextApp ==
    \/ \E selected \in BOOLEAN : CheckKey(selected)
    \/ ChangeKeyClick
    \/ \E count \in 1..MaxFiles : HandleFileChange(count)
    \/ RemoveFile
    \/ \E pro \in BOOLEAN : SetUseProModel(pro)
    \/ \E count \in VariationCounts : SetVariationCount(count)
    \/ \E confirmed \in BOOLEAN : GenerateClick(confirmed)
    \/ \E confirmed \in BOOLEAN : RegenerateClick(confirmed)
    \/ \E count \in VariationCounts : GenerateResolved(count)
    \/ \E message \in Rejections : GenerateRejected(message)
    \/ \E k \in VariationCounts : SelectImage(k)
    \/ DiscardClick
    \/ HandleBackToSelection
    \/ HandleReset

SpecApp == InitAnywhere /\ [][NextApp]_vars

----------------------------------------------------------------------------
(* Properties *)

Seen(kind) == lastEvent.kind = kind

\* The step is a key-down of the given shortcut, typed outside text inputs.
KeyStep(shortcut) ==
    /\ lastEvent'.kind = "keydown"
    /\ lastEvent'.shortcut = shortcut
    /\ ~lastEvent'.textInput

SceneFrame == UNCHANGED <<bubbles, selectedBubbleId, clipboard>>

\* The row of the default table of a bubble type.
TableRow(type) ==
    LET row(w, h, family, pad, weight, text, fill, border, stroke) ==
            [width |-> w, height |-> h, fontFamily |-> family, padding |-> pad,
             fontWeight |-> weight, textColor |-> text, backgroundColor |-> fill,
             borderColor |-> border, textStrokeWidth |-> stroke]
    IN  CASE type = BOX ->
               row(200, 80, "Chakra Petch", 8, "normal", "#000000", "#ffffff", "#000000", 0)
          [] type = PLAIN_TEXT ->
               row(180, 60, "Sriracha", 4, "bold", "#000000", "transparent", "transparent", 3)
          [] type = SHOUT ->
               row(150, 100, "Sriracha", 24, "bold", "#000000", "#fffacd", "#000000", 0)
          [] type = WHISPER ->
               row(150, 100, "Itim", 16, "normal", "#555555", "#ffffff", "#888888", 0)
          [] type \in {SPEECH, THOUGHT, FLASH} ->
               row(150, 100, "Sriracha", 16, "normal", "#000000", "#ffffff", "#000000", 0)

MatchesRow(b) ==
    LET row == TableRow(b.type)
    IN  \A f \in DOMAIN row : b[f] = row[f]

\* C1: every entity stored by addBubble(type) has the width, height, font
\* family, padding, font weight, colours and text stroke width of the row of
\* its type in the default table (checked where add is the only operation).
C1_AddStoresTableRow ==
    \A i \in 1..Len(bubbles) : MatchesRow(bubbles[i])

C1_Witness ==
    /\ Seen("addBubble")
    /\ Len(bubbles) = 3
    /\ {bubbles[i].type : i \in 1..3} = {PLAIN_TEXT, WHISPER, BOX}

\* C2: no two entities of the Scene share an id, whatever the clock readings
\* of the adds and pastes that created them.
C2_UniqueIds ==
    \A i, j \in 1..Len(bubbles) : i # j => bubbles[i].id # bubbles[j].id

\* C3: updateBubble and deleteBubble with an id that matches no entity leave
\* the Scene (entities, order, fields), the selection and the clipboard as
\* they were.
C3_UnknownIdIsNoOp ==
    [][(lastEvent'.kind \in {"updateBubble", "deleteBubble"}
          /\ lastEvent'.id \notin IdsOf(bubbles)) => SceneFrame]_vars

C3_Witness ==
    /\ Seen("deleteBubble")
    /\ lastEvent.id \notin IdsOf(bubbles)
    /\ Len(bubbles) >= 2
    /\ selectedBubbleId # null
    /\ clipboard # <<>>

\* C4: updateBubble(id, partial) with an id of the Scene replaces exactly the
\* fields of partial on the entities with that id, and leaves their other
\* fields, the other entities, the order, the selection and the clipboard
\* unchanged.
C4_UpdateMergesPartial ==
    [][(lastEvent'.kind = "updateBubble" /\ lastEvent'.id \in IdsOf(bubbles)) =>
          /\ \E updates \in UpdateSamples :
                /\ Len(bubbles') = Len(bubbles)
                /\ \A i \in 1..Len(bubbles), f \in TextBubbleFields :
                      bubbles'[i][f] =
                          IF bubbles[i].id = lastEvent'.id /\ f \in DOMAIN updates
                            THEN updates[f] ELSE bubbles[i][f]
          /\ UNCHANGED <<selectedBubbleId, clipboard>>]_vars

C4_Witness ==
    /\ Seen("updateBubble")
    /\ \E i, j \in 1..Len(bubbles) :
          /\ bubbles[i].id = lastEvent.id
          /\ bubbles[i].text = "Hello"
          /\ bubbles[j].id # lastEvent.id
          /\ bubbles[j].text # "Hello"

\* C5: deleting the selected entity removes it and sets the selection to
\* none; deleting an entity that is not the selected one removes it and
\* leaves the selection unchanged (deleteBubble(id) and the delete key).
C5_DeleteAndSelection ==
    [][/\ (lastEvent'.kind = "deleteBubble" /\ lastEvent'.id \in IdsOf(bubbles)) =>
             /\ bubbles' = SelectSeq(bubbles, LAMBDA b : b.id # lastEvent'.id)
             /\ selectedBubbleId' =
                   IF selectedBubbleId = lastEvent'.id THEN null ELSE selectedBubbleId
       /\ (KeyStep("delete") /\ selectedBubbleId # null) =>
             /\ bubbles' = SelectSeq(bubbles, LAMBDA b : b.id # selectedBubbleId)
             /\ selectedBubbleId' = null]_vars

C5_Witness ==
    /\ Seen("deleteBubble")
    /\ lastEvent.id \notin IdsOf(bubbles)
    /\ lastEvent.id # UnknownId
    /\ selectedBubbleId \in IdsOf(bubbles)

\* C6: a paste with a non-empty clipboard appends exactly one entity, equal to
\* the clipboard entity in every field but id (the clock reading of the
\* paste) and position (clipboard + (30,30)), leaves the existing entities
\* unchanged and selects the new entity.
C6_PasteAppendsCopy ==
    [][(KeyStep("paste") /\ clipboard # <<>>) =>
          /\ Len(bubbles') = Len(bubbles) + 1
          /\ SubSeq(bubbles', 1, Len(bubbles)) = bubbles
          /\ LET new == bubbles'[Len(bubbles')]
             IN  /\ \A f \in TextBubbleFields \ {"id", "x", "y"} :
                        new[f] = clipboard[1][f]
                 /\ new.id = ToString(now)
                 /\ new.x = clipboard[1].x + 30
                 /\ new.y = clipboard[1].y + 30
                 /\ selectedBubbleId' = new.id]_vars

C6_Witness ==
    /\ Seen("keydown") /\ lastEvent.shortcut = "paste"
    /\ clipboard # <<>>
    /\ Len(bubbles) >= 2
    /\ LET new == bubbles[Len(bubbles)]
       IN  /\ selectedBubbleId = new.id
           /\ new.id # clipboard[1].id
           /\ new.x = clipboard[1].x + 30
           /\ new.y = clipboard[1].y + 30
           /\ \E i \in 1..(Len(bubbles) - 1) : bubbles[i] = clipboard[1]

\* C7: each paste that follows a copy produces an entity whose id differs from
\* the id of every entity already in the Scene (so two pastes give ids distinct
\* from each other and from every other entity), at clipboard position +
\* (30,30), and leaves the clipboard as it was.
C7_PastesDistinctAndOffset ==
    [][(KeyStep("paste") /\ clipboard # <<>>) =>
          LET new == bubbles'[Len(bubbles')]
          IN  /\ new.id \notin IdsOf(bubbles)
              /\ new.x = clipboard[1].x + 30
              /\ new.y = clipboard[1].y + 30
              /\ clipboard' = clipboard]_vars

\* C8: the clipboard is a value snapshot: only a copy changes it, the copy
\* stores the selected entity as the handler's render shows it, and no update,
\* move, resize, deletion, paste or other step alters the stored value.
C8_ClipboardIsSnapshot ==
    [][clipboard' # clipboard =>
          /\ KeyStep("copy")
          /\ selectedBubbleId # null
          /\ clipboard' = Find(seenBubbles, selectedBubbleId)
          /\ clipboard' # <<>>]_vars

C8_Witness ==
    /\ clipboard # <<>>
    /\ Seen("mousemove")
    /\ \E i \in 1..Len(bubbles) :
          /\ bubbles[i].id = clipboard[1].id
          /\ bubbles[i].x # clipboard[1].x

\* C9: copy with no selection, the delete key with no selection and paste with
\* an empty clipboard change neither the Scene, nor the selection, nor the
\* clipboard.
C9_ShortcutsWithoutOperandAreNoOps ==
    [][(lastEvent'.kind = "keydown" /\
          \/ lastEvent'.shortcut = "copy" /\ selectedBubbleId = null
          \/ lastEvent'.shortcut = "delete" /\ selectedBubbleId = null
          \/ lastEvent'.shortcut = "paste" /\ clipboard = <<>>) => SceneFrame]_vars

C9_Witness ==
    /\ Seen("keydown") /\ lastEvent.shortcut = "copy" /\ ~lastEvent.textInput
    /\ selectedBubbleId = null
    /\ clipboard # <<>>
    /\ bubbles # <<>>

\* C10: while a text-input control (INPUT, TEXTAREA, content-editable) is the
\* target of the key event, the copy, paste and delete shortcuts change
\* neither the Scene, nor the selection, nor the clipboard.
C10_ShortcutsSuppressedInTextInput ==
    [][(lastEvent'.kind = "keydown" /\ lastEvent'.textInput) => SceneFrame]_vars

C10_Witness ==
    /\ Seen("keydown") /\ lastEvent.shortcut = "delete" /\ lastEvent.textInput
    /\ selectedBubbleId \in IdsOf(bubbles)
    /\ clipboard # <<>>

\* A pointer-move handled while a drag of the given mode is in progress and an
\* entity is selected.
MoveStep(mode) ==
    /\ lastEvent'.kind = "mousemove"
    /\ dragRef.mode = mode
    /\ selectedBubbleId # null

\* C11: while in RESIZE, a pointer-move sets the size of the selected entity to
\* (max(60, initialWidth + deltaX), max(40, initialHeight + deltaY)), the delta
\* being measured from the pointer position of the drag start; the resulting
\* width is never below 60 and the height never below 40.
C11_ResizeClampsSize ==
    [][MoveStep("RESIZE") =>
          LET deltaX == lastEvent'.x - dragRef.startX
              deltaY == lastEvent'.y - dragRef.startY
              w == dragRef.initialWidth + deltaX
              h == dragRef.initialHeight + deltaY
          IN  /\ Len(bubbles') = Len(bubbles)
              /\ \A i \in 1..Len(bubbles) :
                    bubbles[i].id = selectedBubbleId =>
                       /\ bubbles'[i].width = (IF w < 60 THEN 60 ELSE w)
                       /\ bubbles'[i].height = (IF h < 40 THEN 40 ELSE h)
                       /\ bubbles'[i].width >= 60
                       /\ bubbles'[i].height >= 40]_vars

C11_Witness ==
    /\ Seen("mousemove")
    /\ dragRef.mode = "RESIZE"
    /\ lastEvent.x - dragRef.startX < 60 - dragRef.initialWidth
    /\ lastEvent.y - dragRef.startY < 40 - dragRef.initialHeight
    /\ \E i \in 1..Len(bubbles) :
          /\ bubbles[i].id = selectedBubbleId
          /\ bubbles[i].width = 60
          /\ bubbles[i].height = 40

\* C12: while in MOVE, a pointer-move sets the position of the selected entity
\* to the position captured at the drag start plus (pointer - pointer at the
\* drag start), whatever position earlier move events gave it.
C12_MoveIsAbsolute ==
    [][MoveStep("MOVE") =>
          /\ Len(bubbles') = Len(bubbles)
          /\ \A i \in 1..Len(bubbles) :
                bubbles[i].id = selectedBubbleId =>
                   /\ bubbles'[i].x = dragRef.initialX + (lastEvent'.x - dragRef.startX)
                   /\ bubbles'[i].y = dragRef.initialY + (lastEvent'.y - dragRef.startY)]_vars

\* The entity was moved by an intermediate event (rendered at +20,-5) and the
\* last event, of cumulative delta (40,-10), puts it at initial + (40,-10).
C12_Witness ==
    /\ Seen("mousemove")
    /\ dragRef.mode = "MOVE"
    /\ lastEvent.x - dragRef.startX = 40
    /\ lastEvent.y - dragRef.startY = -10
    /\ Len(seenBubbles) = Len(bubbles)
    /\ \E i \in 1..Len(bubbles) :
          /\ bubbles[i].id = selectedBubbleId
          /\ seenBubbles[i].x = dragRef.initialX + 20
          /\ seenBubbles[i].y = dragRef.initialY - 5
          /\ bubbles[i].x = dragRef.initialX + 40
          /\ bubbles[i].y = dragRef.initialY - 10

\* C13: every pointer-up leaves the session in IDLE, whatever its mode was and
\* whether or not an entity is selected, and changes neither the Scene, nor the
\* selection, nor the clipboard.
C13_PointerUpEndsSession ==
    [][lastEvent'.kind = "mouseup" =>
          /\ dragRef'.mode = "IDLE"
          /\ SceneFrame]_vars

C13_Witness ==
    /\ Seen("mouseup")
    /\ dragRef.mode = "IDLE"
    /\ dragRef.initialWidth > 0
    /\ selectedBubbleId = null
    /\ bubbles # <<>>

\* C14: a pointer-move changes no entity but those carrying the id selected at
\* the time of the event, and changes nothing when no entity is selected, even
\* if a drag is in progress.
C14_OnlySelectedFollowsDrag ==
    [][lastEvent'.kind = "mousemove" =>
          /\ Len(bubbles') = Len(bubbles)
          /\ \A i \in 1..Len(bubbles) :
                bubbles[i].id # selectedBubbleId => bubbles'[i] = bubbles[i]
          /\ selectedBubbleId = null => bubbles' = bubbles
          /\ UNCHANGED <<selectedBubbleId, clipboard>>]_vars

\* The selection was cleared during a drag that had moved the entity, and the
\* last pointer-move left the entity where it was.
C14_Witness ==
    /\ Seen("mousemove")
    /\ dragRef.mode = "MOVE"
    /\ selectedBubbleId = null
    /\ \E i \in 1..Len(bubbles) :
          /\ bubbles[i].x # dragRef.initialX
          /\ bubbles[i].x # dragRef.initialX + (lastEvent.x - dragRef.startX)

\* C15: a pointer-down on the resize handle of an entity puts the session in
\* RESIZE with the pointer coordinates and the x, y, width and height of the
\* entity captured; the event does not put the session in MOVE and changes
\* neither the selection nor the Scene.
C15_HandleStartsResizeOnly ==
    [][lastEvent'.kind = "resizeMouseDown" =>
          LET b == Find(seenBubbles, lastEvent'.id)
          IN  /\ b # <<>>
              /\ dragRef' = [mode |-> "RESIZE",
                             startX |-> lastEvent'.x, startY |-> lastEvent'.y,
                             initialX |-> b[1].x, initialY |-> b[1].y,
                             initialWidth |-> b[1].width,
                             initialHeight |-> b[1].height]
              /\ selectedBubbleId' = selectedBubbleId
              /\ selectedBubbleId' = lastEvent'.id
              /\ bubbles' = bubbles]_vars

C15_Witness ==
    /\ Seen("resizeMouseDown")
    /\ dragRef.mode = "RESIZE"
    /\ selectedBubbleId = lastEvent.id
    /\ dragRef.startX = 100
    /\ dragRef.initialX # DefaultX
    /\ \E i \in 1..Len(bubbles) :
          /\ bubbles[i].id = lastEvent.id
          /\ bubbles[i].x = dragRef.initialX
          /\ bubbles[i].width = dragRef.initialWidth

\* C16: a pointer-down on the body of an entity selects it and enters MOVE with
\* the pointer coordinates and the x, y, width and height of the entity
\* captured; a pointer-down inside a button (the button itself or an element
\* nested in it) or inside a text input of the entity selects it and leaves the
\* session as it was.
C16_BodyStartsMoveControlsDoNot ==
    [][lastEvent'.kind = "bubbleMouseDown" =>
          LET b == Find(seenBubbles, lastEvent'.id)
          IN  /\ b # <<>>
              /\ selectedBubbleId' = lastEvent'.id
              /\ IF lastEvent'.tagName \in BodyTags
                   THEN dragRef' = [mode |-> "MOVE",
                                    startX |-> lastEvent'.x, startY |-> lastEvent'.y,
                                    initialX |-> b[1].x, initialY |-> b[1].y,
                                    initialWidth |-> b[1].width,
                                    initialHeight |-> b[1].height]
                   ELSE dragRef' = dragRef]_vars

\* C17: a pointer-down on the canvas background sets the selection to none and
\* changes neither the Scene nor the clipboard; a pointer-down on an entity
\* (its body, its controls or its resize handle) leaves that entity selected.
C17_BackgroundDeselects ==
    [][/\ lastEvent'.kind = "canvasMouseDown" =>
             /\ selectedBubbleId' = null
             /\ UNCHANGED <<bubbles, clipboard>>
       /\ lastEvent'.kind \in {"bubbleMouseDown", "resizeMouseDown"} =>
             /\ selectedBubbleId' = lastEvent'.id
             /\ selectedBubbleId' # null]_vars

C17_Witness ==
    /\ Seen("canvasMouseDown")
    /\ selectedBubbleId = null
    /\ Len(bubbles) >= 2
    /\ clipboard # <<>>

\* A click on a button of the style editor of the given kind.
StyleStep(kind) == lastEvent'.kind = kind

\* clamp(v, lo, hi)
Clamp(v, lo, hi) == IF v < lo THEN lo ELSE IF v > hi THEN hi ELSE v

\* C18: a font-size change made through the style editor stores
\* clamp(v, 8, 96) on the entity, v being its current size (16 when none) plus
\* the step of the button, and every stored fontSize stays within [8, 96].
C18_FontSizeClamped ==
    [][StyleStep("fontSize") =>
          /\ Len(bubbles') = Len(bubbles)
          /\ \A i \in 1..Len(bubbles) :
                /\ bubbles[i].id = lastEvent'.id =>
                      LET current == IF bubbles[i].fontSize = 0 THEN 16
                                     ELSE bubbles[i].fontSize
                      IN  bubbles'[i].fontSize = Clamp(current + lastEvent'.step, 8, 96)
                /\ bubbles'[i].fontSize >= 8
                /\ bubbles'[i].fontSize <= 96]_vars

\* C19: a line-height, letter-spacing or padding change made through the style
\* editor stores round(clamp(v, 0.8, 3.0), 1 decimal), clamp(v, -2, 20) and
\* max(0, v), v being the current value plus the step (a stored padding of 0 is
\* the current value, not the default 16); every stored lineHeight is a
\* multiple of 0.1 within [0.8, 3.0], every letterSpacing is within [-2, 20]
\* and every padding is >= 0.
C19_SpacingClamped ==
    [][/\ \A i \in 1..Len(bubbles) :
             bubbles[i].id = lastEvent'.id =>
                /\ StyleStep("lineHeight") =>
                      bubbles'[i].lineHeight =
                         Clamp(bubbles[i].lineHeight + lastEvent'.step, 800, 3000)
                /\ StyleStep("letterSpacing") =>
                      bubbles'[i].letterSpacing =
                         Clamp(bubbles[i].letterSpacing + lastEvent'.step, -2, 20)
                /\ StyleStep("padding") =>
                      bubbles'[i].padding =
                         (IF bubbles[i].padding + lastEvent'.step < 0 THEN 0
                          ELSE bubbles[i].padding + lastEvent'.step)
       /\ \A i \in 1..Len(bubbles') :
             /\ bubbles'[i].lineHeight % 100 = 0
             /\ bubbles'[i].lineHeight >= 800
             /\ bubbles'[i].lineHeight <= 3000
             /\ bubbles'[i].letterSpacing >= -2
             /\ bubbles'[i].letterSpacing <= 20
             /\ bubbles'[i].padding >= 0]_vars

\* The padding was raised from a stored 0 while the line height and the letter
\* spacing sit on their lower limits.
C19_Witness ==
    /\ Seen("padding")
    /\ lastEvent.step = 2
    /\ \E i \in 1..Len(bubbles) :
          /\ bubbles[i].id = lastEvent.id
          /\ bubbles[i].padding = 2
          /\ bubbles[i].lineHeight = 800
          /\ bubbles[i].letterSpacing = -2

\* C20: toggling the text outline stores textStrokeWidth 3 and textStrokeColor
\* #ffffff when the outline was off, whatever outline colour was stored, and
\* stores textStrokeWidth 0 when the outline was on.
C20_ToggleOutline ==
    [][StyleStep("toggleStroke") =>
          /\ Len(bubbles') = Len(bubbles)
          /\ \A i \in 1..Len(bubbles) :
                bubbles[i].id = lastEvent'.id =>
                   IF bubbles[i].textStrokeWidth > 0
                     THEN bubbles'[i].textStrokeWidth = 0
                     ELSE /\ bubbles'[i].textStrokeWidth = 3
                          /\ bubbles'[i].textStrokeColor = "#ffffff"]_vars

\* A PLAIN_TEXT entity whose outline, given a custom colour, was toggled off.
C20_Witness ==
    /\ Seen("toggleStroke")
    /\ \E i \in 1..Len(bubbles) :
          /\ bubbles[i].id = lastEvent.id
          /\ bubbles[i].type = PLAIN_TEXT
          /\ bubbles[i].textStrokeWidth = 0
          /\ bubbles[i].textStrokeColor = "#ff0000"

----------------------------------------------------------------------------
(* C21, C22: the font and the bold buttons *)

\* The entry of the list that follows a family, the last one wrapping to the
\* first; a family that is not in the list is followed by the first entry.
FollowingFont(family) ==
    IF \E i \in 1..(Len(FONT_OPTIONS) - 1) : FONT_OPTIONS[i] = family
    THEN FONT_OPTIONS[(CHOOSE i \in 1..(Len(FONT_OPTIONS) - 1) :
                          FONT_OPTIONS[i] = family) + 1]
    ELSE FONT_OPTIONS[1]

\* The bubble after n clicks on its font button
RECURSIVE Cycled(_, _)
Cycled(bubble, n) ==
    IF n = 0 THEN bubble
    ELSE Cycled(Merge(bubble, cycleFont(bubble)), n - 1)

\* The bubble after n clicks on its bold button
RECURSIVE Toggled(_, _)
Toggled(bubble, n) ==
    IF n = 0 THEN bubble
    ELSE Toggled(Merge(bubble, toggleBold(bubble)), n - 1)

\* C21: the list has five entries; a click on the font button stores, in the
\* bubble it belongs to, the entry that follows the family the bubble showed
\* (the last entry wraps to the first) and changes no other bubble; the stored
\* family of every bubble is an entry of the list, and five clicks in a row
\* bring a bubble back to the family it started from.
C21_CycleFontIsCircular ==
    [][ /\ Len(FONT_OPTIONS) = 5
        /\ \A i \in 1..Len(bubbles') :
              /\ \E k \in 1..Len(FONT_OPTIONS) :
                    bubbles'[i].fontFamily = FONT_OPTIONS[k]
              /\ Cycled(bubbles'[i], 5) = bubbles'[i]
              /\ \A n \in 1..4 : Cycled(bubbles'[i], n) # bubbles'[i]
        /\ StyleStep("cycleFont") =>
              /\ Len(bubbles') = Len(bubbles)
              /\ \E i \in 1..Len(bubbles) :
                    /\ bubbles[i].id = lastEvent'.id
                    /\ findIndex(fontFamily(bubbles[i])) = lastEvent'.before
              /\ \A i \in 1..Len(bubbles) :
                    IF bubbles[i].id = lastEvent'.id
                    THEN /\ findIndex(fontFamily(bubbles[i])) = lastEvent'.before
                            => bubbles'[i].fontFamily
                                  = FollowingFont(fontFamily(bubbles[i]))
                         /\ bubbles'[i] = [bubbles[i] EXCEPT
                                !.fontFamily = bubbles'[i].fontFamily]
                    ELSE bubbles'[i] = bubbles[i]
      ]_vars

\* A click on the font button of a bubble that showed the last entry, which now
\* shows the first one, next to a bubble of another family.
C21_Witness ==
    /\ Seen("cycleFont")
    /\ lastEvent.before = Len(FONT_OPTIONS) - 1
    /\ Len(bubbles) = 2
    /\ \E i, j \in 1..Len(bubbles) :
          /\ bubbles[i].id = lastEvent.id
          /\ bubbles[i].fontFamily = FONT_OPTIONS[1]
          /\ bubbles[j].id # lastEvent.id
          /\ bubbles[j].fontFamily # FONT_OPTIONS[1]

\* C22: a click on the bold button stores "bold" in the bubble it belongs to
\* when the bubble showed another weight (none stored counts as "normal") and
\* "normal" when it showed "bold", and changes no other field and no other
\* bubble; the stored weight is one of the two, and two clicks in a row give
\* the bubble back.
C22_ToggleBoldFlips ==
    [][ /\ \A i \in 1..Len(bubbles') :
              /\ bubbles'[i].fontWeight \in {"normal", "bold"}
              /\ Toggled(bubbles'[i], 2) = bubbles'[i]
              /\ Toggled(bubbles'[i], 1) # bubbles'[i]
        /\ fontWeight([fontWeight |-> ""]) = "normal"
        /\ StyleStep("toggleBold") =>
              /\ Len(bubbles') = Len(bubbles)
              /\ \E i \in 1..Len(bubbles) :
                    /\ bubbles[i].id = lastEvent'.id
                    /\ (fontWeight(bubbles[i]) = "bold") <=> (lastEvent'.before = 1)
              /\ \A i \in 1..Len(bubbles) :
                    IF bubbles[i].id = lastEvent'.id
                    THEN bubbles'[i] = [bubbles[i] EXCEPT
                            !.fontWeight = IF lastEvent'.before = 1
                                           THEN "normal" ELSE "bold"]
                    ELSE bubbles'[i] = bubbles[i]
      ]_vars

\* A click on the bold button of a bold bubble, which is normal again, next to
\* a bubble that stayed bold.
C22_Witness ==
    /\ Seen("toggleBold")
    /\ lastEvent.before = 1
    /\ Len(bubbles) = 2
    /\ \E i, j \in 1..Len(bubbles) :
          /\ bubbles[i].id = lastEvent.id
          /\ bubbles[i].fontWeight = "normal"
          /\ bubbles[j].id # lastEvent.id
          /\ bubbles[j].fontWeight = "bold"

----------------------------------------------------------------------------
(* C23 .. C27: the export *)

\* The step belongs to a call of handleSave.
ExportStep == lastEvent'.kind \in {"handleSave", "cloneNode", "download", "catch"}

\* C23: every copy of the canvas that handleSave made for the capture was made
\* while nothing was selected, whatever happened between the click on Save and
\* the copy.
C23_CaptureHasNoSelection ==
    \A clone \in clones : clone.selectedBubbleId = null

\* C24: at most one call of handleSave is in flight; while one is, the Save
\* button is busy and a click on it starts nothing; the button is busy at no
\* other time.
C24_OneExportInFlight ==
    /\ Cardinality(saves) <= 1
    /\ isSaving <=> saves # {}
    /\ saves # {} => ~ENABLED HandleSave

\* A call of handleSave waits for html2canvas while the run could take another
\* export.
C24_Witness ==
    /\ \E save \in saves : save.await = "html2canvas"
    /\ isSaving
    /\ nOps < MaxOps
    /\ mounted

\* C25: no step of handleSave changes the scene; the click on Save leaves
\* nothing selected; when the capture fails the error is caught, the alert
\* asks to try again, the selection is left as it is (not restored) and the
\* Save button is free again.
C25_ExportLeavesScene ==
    [][ /\ ExportStep => bubbles' = bubbles
        /\ lastEvent'.kind = "handleSave" => selectedBubbleId' = null
        /\ lastEvent'.kind = "catch" =>
              /\ lastEvent'.alert = SaveFailedMessage
              /\ selectedBubbleId' = selectedBubbleId
              /\ ~saveDisabled(isSaving')
              /\ saves' = {}
      ]_vars

\* A capture of a scene with a bubble has just failed: the bubble is there,
\* nothing is selected, the button is free.
C25_Witness ==
    /\ Seen("catch")
    /\ bubbles # <<>>
    /\ selectedBubbleId = null
    /\ ~isSaving
    /\ clipboard # <<>>

\* C26: whenever the Save button is busy, it is free again later.
C26_BusyEnds == isSaving ~> ~isSaving

\* An export has ended with the download and the button is free.
C26_Witness ==
    /\ Seen("download")
    /\ ~isSaving
    /\ saves = {}
    /\ bubbles # <<>>

\* C27: when no call of handleSave is in flight, no copy of the canvas is
\* attached to the document.
C27_NoCloneRemains ==
    saves = {} => clones = {}

----------------------------------------------------------------------------
(* C28 .. C30: what holds of the entities and of the handlers throughout *)

\* C28: every bubble of the scene is at least 60 wide and 40 high, and so are
\* the defaults of every type.
C28_MinimumSize ==
    /\ \A type \in BubbleType :
          /\ Defaults(type).width >= 60
          /\ Defaults(type).height >= 40
    /\ \A i \in 1..Len(bubbles) :
          /\ bubbles[i].width >= 60
          /\ bubbles[i].height >= 40

\* A bubble resized down to the minimum was copied and pasted: the scene holds
\* two bubbles of the minimum size.
C28_Witness ==
    /\ Seen("keydown")
    /\ lastEvent.shortcut = "paste"
    /\ Len(bubbles) = 2
    /\ \A i \in 1..Len(bubbles) :
          /\ bubbles[i].width = 60
          /\ bubbles[i].height = 40

\* The partials the controls of a bubble pass to onUpdate, and the one a
\* pointer-move passes for it
PartialsOf(bubble) ==
    {toggleBold(bubble), cycleFont(bubble), toggleStroke(bubble)}
      \cup UpdateSamples
      \cup {[textStrokeColor |-> color] : color \in StrokeColors}
      \cup {handleFontSizeChange(bubble, delta) : delta \in FontSizeSteps}
      \cup {handlePaddingChange(bubble, delta) : delta \in PaddingSteps}
      \cup {handleLineHeightChange(bubble, delta, 0) : delta \in LineHeightSteps}
      \cup {handleLetterSpacingChange(bubble, delta) : delta \in LetterSpacingSteps}
      \cup {dragUpdates(Capture(mode, p, bubble), p) :
               mode \in {"MOVE", "RESIZE"}, p \in MovePointers}

\* C29: a step leaves the id and the type of every bubble it does not delete:
\* either the bubbles keep their places, one more being appended at most, or
\* the scene is the old one without the bubbles of one id; and no partial a
\* control or a drag passes for a bubble names its id or its type.
C29_IdAndTypeAreStable ==
    [][ /\ \/ /\ Len(bubbles') \in {Len(bubbles), Len(bubbles) + 1}
              /\ \A i \in 1..Len(bubbles) :
                    /\ bubbles'[i].id = bubbles[i].id
                    /\ bubbles'[i].type = bubbles[i].type
           \/ \E id \in IdsOf(bubbles) :
                 bubbles' = SelectSeq(bubbles, LAMBDA b : b.id # id)
        /\ bubbles' # bubbles =>
              \A i \in 1..Len(bubbles') : \A updates \in PartialsOf(bubbles'[i]) :
                 DOMAIN updates \cap {"id", "type"} = {}
      ]_vars

\* A bubble of type BOX was moved and made bold, and an export of the scene
\* ended with the download.
C29_Witness ==
    /\ Seen("download")
    /\ \E i \in 1..Len(bubbles) :
          /\ bubbles[i].type = BOX
          /\ bubbles[i].x # DefaultX
          /\ bubbles[i].fontWeight # Defaults(BOX).fontWeight

\* C30: while the Editor is mounted exactly one handler is registered on
\* window for each of keydown, mousemove and mouseup, through every run of the
\* effects; once it is unmounted none is.
C30_OneHandlerOfEachKind ==
    \A type \in EventTypes :
        listeners[type] = IF mounted THEN 1 ELSE 0

\* The Editor was unmounted after the scene, the selection and the clipboard
\* had changed, a moved bubble included.
C30_Witness ==
    /\ ~mounted
    /\ Seen("unmount")
    /\ clipboard # <<>>
    /\ selectedBubbleId # null
    /\ \E i \in 1..Len(seenBubbles) : seenBubbles[i].x # DefaultX

----------------------------------------------------------------------------
(* C31 .. C36: the pointer, the selection and the scene *)

\* C31: a pointer-move handled while the session is IDLE changes neither the
\* scene, nor the selection, nor the clipboard, nor the session, whether or not
\* an entity is selected; the session is IDLE at the start and after every
\* pointer-up.
C31_IdleMoveChangesNothing ==
    [][ /\ (lastEvent'.kind = "mousemove" /\ dragRef.mode = "IDLE") =>
              /\ SceneFrame
              /\ dragRef' = dragRef
        /\ lastEvent'.kind = "mouseup" => dragRef'.mode = "IDLE"
        /\ lastEvent.kind = "init" => dragRef.mode = "IDLE"
      ]_vars

\* A pointer-move arrived after the pointer-up of a drag that had moved the
\* entity, which is still selected and stays where the drag left it.
C31_Witness ==
    /\ Seen("mousemove")
    /\ dragRef.mode = "IDLE"
    /\ dragRef.initialWidth > 0
    /\ selectedBubbleId # null
    /\ \E i \in 1..Len(bubbles) :
          /\ bubbles[i].id = selectedBubbleId
          /\ bubbles[i].x # dragRef.initialX
          /\ bubbles[i].x # dragRef.initialX + (lastEvent.x - dragRef.startX)

\* C32: among the rendered bubbles at most one is painted at the level of the
\* selection (z-index 50), it is the selected one, and every other bubble is
\* painted strictly below it (z-index 10), wherever it stands in the scene.
C32_SelectedPaintedAbove ==
    LET level(i) == zIndex(selectedBubbleId, bubbles[i])
        top == {i \in 1..Len(bubbles) : level(i) = 50}
    IN  /\ Cardinality(top) <= 1
        /\ \A i \in 1..Len(bubbles) : level(i) \in {10, 50}
        /\ \A i \in top : \A j \in (1..Len(bubbles)) \ top : level(i) > level(j)
        /\ \A i \in 1..Len(bubbles) :
              level(i) = 50 <=> bubbles[i].id = selectedBubbleId

\* C33: the selection is none or the id of a bubble of the scene.
C33_SelectionIsInScene ==
    selectedBubbleId = null \/ selectedBubbleId \in IdsOf(bubbles)

\* The copied bubble was selected again and deleted with the keyboard: nothing
\* is selected, and the scene holds its duplicate only.
C33_Witness ==
    /\ Seen("keydown")
    /\ lastEvent.shortcut = "delete"
    /\ selectedBubbleId = null
    /\ bubbles # <<>>
    /\ clipboard # <<>>
    /\ clipboard[1].id \notin IdsOf(bubbles)

\* The geometry of a bubble
Geometry(b) == <<b.x, b.y, b.width, b.height>>

\* C34: while a drag or a resize is in progress, a pointer-move changes the
\* position and the size of no bubble but the one on which the session
\* started, even if the selection changed since the pointer-down.
C34_DragMutatesItsTargetOnly ==
    [][(lastEvent'.kind = "mousemove" /\ dragRef.mode # "IDLE") =>
          /\ Len(bubbles') = Len(bubbles)
          /\ \A i \in 1..Len(bubbles) :
                bubbles[i].id # dragTarget =>
                    Geometry(bubbles'[i]) = Geometry(bubbles[i])]_vars

\* C35: a pointer-move of a MOVE session changes nothing of a bubble but x and
\* y, and one of a RESIZE session nothing but width and height; neither
\* changes the number or the order of the bubbles, nor the clipboard.
C35_DragChangesItsFieldsOnly ==
    [][lastEvent'.kind = "mousemove" =>
          /\ Len(bubbles') = Len(bubbles)
          /\ clipboard' = clipboard
          /\ dragRef.mode = "MOVE" =>
                \A i \in 1..Len(bubbles) :
                    bubbles'[i] = [bubbles[i] EXCEPT !.x = bubbles'[i].x,
                                                     !.y = bubbles'[i].y]
          /\ dragRef.mode = "RESIZE" =>
                \A i \in 1..Len(bubbles) :
                    bubbles'[i] = [bubbles[i] EXCEPT !.width = bubbles'[i].width,
                                                     !.height = bubbles'[i].height]
          /\ dragRef.mode = "IDLE" => bubbles' = bubbles]_vars

\* A pointer-move of a RESIZE session made the selected bubble larger than it
\* was at the pointer-down and left its corner where it was.
C35_Witness ==
    /\ Seen("mousemove")
    /\ dragRef.mode = "RESIZE"
    /\ \E i \in 1..Len(bubbles) :
          /\ bubbles[i].id = selectedBubbleId
          /\ bubbles[i].width > dragRef.initialWidth
          /\ bubbles[i].height # dragRef.initialHeight
          /\ bubbles[i].x = dragRef.initialX
          /\ bubbles[i].y = dragRef.initialY

\* C36: addBubble appends one bubble, placed at (50, 50), to the scene as it is
\* when the click is handled, every bubble before it keeping its place and the
\* latest value of every field, and selects the new bubble.
C36_AddKeepsLatestScene ==
    [][lastEvent'.kind = "addBubble" =>
          /\ Len(bubbles') = Len(bubbles) + 1
          /\ bubbles'[Len(bubbles')].x = 50
          /\ bubbles'[Len(bubbles')].y = 50
          /\ selectedBubbleId' = bubbles'[Len(bubbles')].id
          /\ \A i \in 1..Len(bubbles) : bubbles'[i] = bubbles[i]]_vars

----------------------------------------------------------------------------
(* C37 .. C39: the generation service and the host application *)

\* The wait before retry k, as the claim tabulates it
Backoff(k) ==
    CASE k = 0 -> 10000
      [] k = 1 -> 20000
      [] k = 2 -> 40000
      [] k = 3 -> 80000
      [] OTHER -> 0

\* The request of generateSingleImage that just settled was rejected
Failed == single'.response.kind = "error"

\* C37  A single image generation makes at most 5 attempts and always ends.
\* A failed attempt is retried only when its status is none of 400, 401, 403
\* and fewer than 4 retries were made; the wait before retry k (k = 0..3) is
\* 10000 * 2^k ms; after a terminal error or the fifth failure the result is
\* null, and nothing is thrown.
C37_SingleImageEnds ==
    /\ [](single.attempts <= 5)
    /\ [][page.pc = "request" =>
            /\ page'.pc = "backoff" =>
                  /\ Failed
                  /\ single'.response.status \notin {400, 401, 403}
                  /\ single.retryCount < 4
                  /\ single'.delays
                        = Append(single.delays, Backoff(single.retryCount))
            /\ Failed /\ (\/ single'.response.status \in {400, 401, 403}
                          \/ single.attempts = 5) =>
                  /\ single'.result = "null"
                  /\ page'.pc \in {"returned", "thrown"}
                  /\ page'.error \in {null, NoImagesMessage}]_vars
    /\ [][page.pc = "backoff" /\ page'.pc = "request" =>
            /\ single'.retryCount = single.retryCount + 1
            /\ single'.attempts = single.attempts + 1
            /\ page'.waited = page.waited + Backoff(single.retryCount)]_vars
    /\ (single.result = "pending" ~> single.result # "pending")

\* The fifth attempt failed after waits of 10, 20, 40 and 80 seconds
C37_Witness ==
    /\ single.attempts = 5
    /\ single.response.kind = "error"
    /\ single.result = "null"
    /\ single.delays = <<10000, 20000, 40000, 80000>>

\* generateMangaPage has come to its end
Settled == page.pc \in {"returned", "thrown"}

\* The images of the variations 1 .. n, in the order of their requests
FirstImages(n) == [k \in 1..n |-> k]

\* C38  generateMangaPage returns between 1 and numberOfVariations images or
\* throws. The variations are requested one after another; the first variation
\* that comes to nothing after its retries ends the requests; the images
\* obtained before it are returned; an error is thrown only when no image at
\* all was obtained, and it is thrown when no file was given.
C38_PageReturnsImagesOrThrows ==
    /\ [](page.pc = "returned" =>
            /\ Len(page.validImages) \in 1..page.numberOfVariations
            /\ page.error = null)
    /\ [](page.pc = "thrown" =>
            /\ page.validImages = <<>>
            /\ page.error # null)
    /\ [](page.pc # "idle" /\ page.imageFiles = 0 =>
            page.pc = "thrown" /\ single = NoSingle)
    /\ [](page.pc \in {"request", "backoff"} =>
            /\ single.result = "pending"
            /\ page.i < page.numberOfVariations
            /\ page.validImages = FirstImages(page.i))
    /\ [][single.result = "pending" /\ single'.result = "image" =>
            /\ page'.validImages = FirstImages(page.i + 1)
            /\ page'.pc = IF page.i + 1 < page.numberOfVariations
                          THEN "pause" ELSE "returned"]_vars
    /\ [][single.result = "pending" /\ single'.result = "null" =>
            /\ page'.validImages = page.validImages
            /\ page'.pc = IF page.validImages = <<>>
                          THEN "thrown" ELSE "returned"]_vars
    /\ [][Settled => page' = page /\ single' = single]_vars

\* The second of two variations came to nothing and the first image is returned
C38_Witness ==
    /\ page.pc = "returned"
    /\ page.numberOfVariations = 2
    /\ page.validImages = <<1>>
    /\ single.result = "null"

\* The step starts a request: handleGenerate calls generateMangaPage
StartsRequest == Len(pending') > Len(pending)

\* The step ends a request: generateMangaPage resolved or rejected
EndsRequest == Len(pending') < Len(pending)

\* C39  At most one generation request is in flight. isGenerating is true
\* from the start of a request until it resolves or rejects and false again on
\* both paths; while it is true no control starts a second request; a request
\* is never started with zero files, nor with the Pro model selected and
\* hasApiKey false.
C39_OneRequestInFlight ==
    /\ [](Len(pending) <= 1)
    /\ [](isGenerating <=> pending # <<>>)
    /\ [](\A k \in 1..Len(pending) :
            /\ pending[k].files > 0
            /\ pending[k].useProModel => pending[k].hasApiKey)
    /\ [][StartsRequest =>
            /\ ~isGenerating /\ isGenerating'
            /\ files > 0
            /\ ~(useProModel /\ ~hasApiKey)
            /\ pending' = <<Request(files, useProModel, hasApiKey,
                                    variationCount)>>]_vars
    /\ [][EndsRequest => isGenerating /\ ~isGenerating']_vars
    /\ [][isGenerating /\ isGenerating' => pending' = pending]_vars

\* A request with the Pro model is in flight, and its files were removed since
C39_Witness ==
    /\ isGenerating
    /\ Len(pending) = 1
    /\ pending[1].useProModel
    /\ files = 0

=============================================================================
